---- MODULE Spec2Model ----
(***************************************************************************)
(* Client-side state reconciliation of the Developer-Assistant front end:  *)
(* the run store (step map, log, single-flight completion guard), the      *)
(* project store (the Project Mirror), the optimistic file mutations of    *)
(* the code editor (rename, add, delete) and the debounced file save.      *)
(***************************************************************************)
EXTENDS Integers, Sequences, FiniteSets, TLC

VARIABLES
    project,        \* ProjectStore.project
    ready,          \* ProjectStore.ready
    runId,          \* RunState.runId
    running,        \* RunState.running
    runType,        \* RunState.runType
    steps,          \* RunState.steps
    logs,           \* RunState.logs
    last,           \* RunState.last
    doneInflight,   \* module-level single-flight flag of runStore
    fetches,        \* snapshot fetches of the done branch that have not settled
    session,        \* history: number of reset()/initRun() calls so far
    nFetches,       \* history: number of snapshot fetches issued so far
    lastDone,       \* history: what the done event processed by the run store's last step did
    lastSettle,     \* history: the snapshot fetch that the step just taken settled
    named,          \* history: state of the last status event naming each step
    starting,       \* the start/modify request of a run launch that has not settled
    mut,            \* the structural file mutation (rename/add/delete) in flight
    nRequests,      \* number of remote add/rename/delete requests that have not settled
    lastEdit,       \* history: what the file mutation step just taken did
    loading,        \* the project id of the load request (useFetchProject) in flight
    bufKey,         \* the key (project id, file name) the save hook's key effect last ran for
    prevContentRef, \* useDebouncedFileSave.prevContentRef.current
    latestContentRef, \* useDebouncedFileSave.latestContentRef.current
    timerRefLive,   \* whether the timer held by timerRef has not fired or been cleared
    liveTimers,     \* number of setTimeout timers that are armed
    writes,         \* remote file writes (patchFileContent) that have not settled
    burst,          \* history: contents passed to save() since the timer was last idle
    burstBase,      \* history: the file's mirror content before the first update of the burst
    nSaves,         \* history: number of save() calls so far
    lastWrite,      \* history: the last remote write issued
    lastFail,       \* history: the last failed remote write and what the mirror held after it
    confirmed,      \* history: the content the last successful write for the key confirmed
    lastKey,        \* history: the last run of the key effect and the updates it dropped
    bufMounted,     \* the component that owns the save hook (CodeEditor) is mounted
    parked,         \* a file mutation in flight that a later file mutation overlapped
    lastKill,       \* history: the kill request that the step just taken settled
    es,             \* the run id the EventSource of useRunEvents is open for
    inbox,          \* stream items the EventSource received and has not passed to onmessage
    nArrived,       \* history: number of stream items received so far
    lastItem,       \* history: the stream item that the step just taken passed to onmessage
    token,          \* useAuthStore.token
    esToken,        \* the token the EventSource of useRunEvents was opened with
    esGen,          \* number of EventSources that useRunEvents has constructed so far
    open,           \* the EventSources (by number) that are not closed
    inboxGen        \* for each item of inbox, the EventSource that received it

\* the content that the last successful write for the buffer's key confirmed
NoConfirmed == [seen |-> FALSE, content |-> <<>>, updates |-> 0,
                lastOk |-> FALSE, lastContent |-> <<>>, lastOver |-> FALSE]
\* the step just taken was no run of the key effect
NoKey == [seen |-> FALSE, timer |-> FALSE, fileName |-> "null", dropped |-> <<>>]

vars == <<project, ready, runId, running, runType, steps, logs, last, doneInflight,
          fetches, session, nFetches, lastDone, lastSettle, named, starting, mut,
          nRequests,
          lastEdit, loading, bufKey, prevContentRef, latestContentRef, timerRefLive, liveTimers,
          writes, burst, burstBase, nSaves, lastWrite, lastFail, confirmed, lastKey, bufMounted,
          parked, lastKill,
          es, inbox, nArrived, lastItem, token, esToken, esGen, open, inboxGen>>

runVars == <<runId, running, runType, steps, logs, last, doneInflight, fetches,
             session, nFetches, lastDone, named, starting>>
editVars == <<mut, nRequests, lastEdit>>
bufVars == <<bufKey, prevContentRef, latestContentRef, timerRefLive, liveTimers, writes,
             burst, burstBase, nSaves, lastWrite, lastFail, confirmed, lastKey,
             bufMounted>>

\* null / undefined of the source
Null == "null"

\* no file mutation step was just taken
NoEdit == [op |-> Null, outcome |-> Null, name |-> Null, collision |-> FALSE,
           requests |-> 0, preFiles |-> <<>>, preActive |-> Null,
           postFiles |-> <<>>, postActive |-> Null, replaced |-> FALSE, kept |-> FALSE]

\* no snapshot fetch of the done branch settled in the step just taken
NoSettle == [seen |-> FALSE, ok |-> FALSE, quiet |-> FALSE, keptAtDone |-> FALSE,
             kept |-> FALSE, preReady |-> FALSE,
             snapshot |-> [id |-> Null, title |-> Null, files |-> <<>>, messages |-> <<>>]]

\* no kill request settled in the step just taken
NoKill == [seen |-> FALSE, ok |-> FALSE, cause |-> Null]

\* no stream item was passed to onmessage in the step just taken
NoItem == [seen |-> FALSE, json |-> FALSE, t |-> Null, gen |-> 0]

\* a step that is no part of the stream consumer
StreamIdle ==
    /\ UNCHANGED <<es, inbox, nArrived, token, esToken, esGen, open, inboxGen>>
    /\ UNCHANGED parked
    /\ lastItem' = NoItem

\* a step of pushEvent, which is no part of a file mutation
EventIdle ==
    /\ UNCHANGED <<mut, nRequests, loading, parked>>
    /\ lastEdit' = NoEdit /\ lastSettle' = NoSettle /\ lastKill' = NoKill

\* a step that is no part of a file mutation
EditIdle == EventIdle /\ StreamIdle

-----------------------------------------------------------------------------
(* Bounds of the model *)

MaxSessions == 1
MaxFetches == 3
MaxMessages == 2
MaxLogs == 2
MaxSaves == 3
MaxWrites == 1
MaxOverlap == 2
MaxPending == 2
MaxMirrorSaves == 1
MaxMirrorFetches == 1
MaxItems == 3
MaxChannels == 2

-----------------------------------------------------------------------------
(* File contents are sequences of tokens; the token "S" stands for one     *)
(* <style id="tw-built">...</style> block, "J" for the text JSON.stringify  *)
(* puts around a structured content.                                       *)

EmptyContent == <<>>

RECURSIVE RemoveFirst(_, _)
RemoveFirst(s, tok) ==
    IF s = <<>> THEN <<>>
    ELSE IF Head(s) = tok THEN Tail(s)
    ELSE <<Head(s)>> \o RemoveFirst(Tail(s), tok)

\* stripTwBuilt: the first tw-built style block is removed (the regex is not global)
stripTwBuilt(html) == IF html = EmptyContent THEN html ELSE RemoveFirst(html, "S")

\* fileName.endsWith("index.html")
IndexHtmlNames == {"index.html"}
endsWithIndexHtml(fileName) == fileName \in IndexHtmlNames

-----------------------------------------------------------------------------
(* ProjectStore *)

\* createEmptyProject: genId() gives a fresh local identifier
createEmptyProject(title) ==
    [id |-> "local", title |-> title, files |-> <<>>, activeFile |-> Null,
     messages |-> <<>>, isPending |-> FALSE]

FileNames(files) == {files[i].name : i \in 1..Len(files)}

\* files.find((f) => f.name === name): index of the first file with that name, 0 if none
RECURSIVE FindFrom(_, _, _)
FindFrom(files, name, i) ==
    IF i > Len(files) THEN 0
    ELSE IF files[i].name = name THEN i
    ELSE FindFrom(files, name, i + 1)

findFile(files, name) == FindFrom(files, name, 1)

\* files[0]?.name ?? null
firstName(files) == IF Len(files) = 0 THEN Null ELSE files[1].name

\* content of the file called name, "" when there is none
contentOf(files, name) ==
    IF findFile(files, name) = 0 THEN EmptyContent ELSE files[findFile(files, name)].content

\* setFiles: the selection is kept if it names one of the new files, else it
\* falls back to the first file, else to null
setFiles(p, files) ==
    [p EXCEPT !.files = files,
              !.activeFile = IF findFile(files, p.activeFile) # 0
                             THEN files[findFile(files, p.activeFile)].name
                             ELSE firstName(files)]

setActiveFile(p, fileName) == [p EXCEPT !.activeFile = fileName]

\* updateFile: the content of every file called fileName is replaced
updateFile(p, fileName, newContent) ==
    [p EXCEPT !.files = [i \in 1..Len(p.files) |->
        IF p.files[i].name = fileName
        THEN [p.files[i] EXCEPT !.content = newContent]
        ELSE p.files[i]]]

renameProject(p, newTitle) == [p EXCEPT !.title = newTitle]
setId(p, id) == [p EXCEPT !.id = id]
setMessages(p, messages) == [p EXCEPT !.messages = messages]
setIsPending(p, value) == [p EXCEPT !.isPending = value]

addMessageNone(p, content, fromUser) == p

\* the mirror's identifier, title, files, selection and messages (Project without
\* isPending)
MirrorFields(p) ==
    [id |-> p.id, title |-> p.title, files |-> p.files, activeFile |-> p.activeFile,
     messages |-> p.messages]

\* addMessage: the new id is the last message's id plus one
addMessage(p, content, fromUser) ==
    [p EXCEPT !.messages = Append(p.messages,
        [id |-> (IF Len(p.messages) > 0 THEN p.messages[Len(p.messages)].id ELSE 0) + 1,
         content |-> content, fromUser |-> fromUser])]

-----------------------------------------------------------------------------
(* Remote project snapshots (FullProjectResponse) and their normalization *)

\* a raw file content is a string, or an object that JSON.stringify turns into text
rawText(c) == [obj |-> FALSE, text |-> c]
rawObject(c) == [obj |-> TRUE, text |-> c]

RemoteBodies ==
    { [title |-> "T1",
       files |-> << [name |-> "a.ts", content |-> rawText(<<>>)],
                    [name |-> "b.ts", content |-> rawText(<<"x">>)] >>,
       messages |-> << [id |-> 1, content |-> "hello", fromUser |-> TRUE] >>],
      [title |-> "T2",
       files |-> << [name |-> "index.html", content |-> rawText(<<"S", "x">>)],
                    [name |-> "d.json", content |-> rawObject(<<"y">>)] >>,
       messages |-> <<>>] }

\* typeof f.content === "object" ? JSON.stringify(f.content, null, 2) : f.content
normalizeContent(c) == IF c.obj THEN <<"J">> \o c.text ELSE c.text

normalizeProject(data) ==
    [id |-> data.id, title |-> data.title,
     files |-> [i \in 1..Len(data.files) |->
                  [name |-> data.files[i].name,
                   content |-> normalizeContent(data.files[i].content)]],
     messages |-> data.messages]

applyProjectKeepMessages(p, n) ==
    setId(renameProject(setActiveFile(setFiles(p, n.files), firstName(n.files)), n.title),
          n.id)

\* applyProjectToStore, on [project, ready]
applyProjectToStore(p, n) ==
    setMessages(setId(renameProject(
        setActiveFile(setFiles(p, n.files), firstName(n.files)), n.title), n.id), n.messages)

-----------------------------------------------------------------------------
(* RunStore *)

StepKeys == {"router", "planner", "implement", "test", "fix"}
StepStates == {"queued", "running", "done", "failed"}
RunIds == {"r1"}
FailureLine == "Pipeline failed to complete."

Event(t, step, state, chunk, title, ok, projectId) ==
    [t |-> t, step |-> step, state |-> state, chunk |-> chunk, title |-> title,
     ok |-> ok, projectId |-> projectId]

\* ok is FALSE only for an event that carries ok: false (the test is e.ok === false)
StatusEvent(step, state) == Event("status", step, state, Null, Null, TRUE, Null)
LogEvent(chunk) == Event("log", Null, Null, chunk, Null, TRUE, Null)
TitleEvent(title) == Event("title.generated", Null, Null, Null, title, TRUE, Null)
DoneEvent(ok, projectId) == Event("done", Null, Null, Null, Null, ok, projectId)
OtherEvent(t) == Event(t, Null, Null, Null, Null, TRUE, Null)

\* last: undefined
NoEvent == Event(Null, Null, Null, Null, Null, TRUE, Null)

\* no start/modify request pending
NoStart == [kind |-> Null, id |-> Null]

\* no done event processed yet
NoDone == [ok |-> TRUE, guard |-> FALSE, dup |-> FALSE, issued |-> 0, appended |-> <<>>,
           changed |-> FALSE, seen |-> FALSE]

NoSteps == [k \in {} |-> Null]

setStepKeepFirst(s, step, state) ==
    IF step \in DOMAIN s THEN s
    ELSE [k \in DOMAIN s \cup {step} |-> IF k = step THEN state ELSE s[k]]

\* setStep: { ...s.steps, [step]: state }
setStep(s, step, state) ==
    [k \in DOMAIN s \cup {step} |-> IF k = step THEN state ELSE s[k]]

\* RunView: ALL_STEPS, and the stepOrder memo
ALL_STEPS == <<"router", "planner", "implement", "test", "fix">>

stepOrder(type) ==
    IF type = "modify" THEN <<"planner", "implement", "test", "fix">> ELSE ALL_STEPS

\* steps?.[step]: undefined for a step the map does not hold
stepStatus(s, step) == IF step \in DOMAIN s THEN s[step] ELSE Null

runningIndexNone(s, order) == 0

\* order.findIndex((step) => steps?.[step] === "running"), positions counted from 1
\* and 0 standing for the -1 of the source
runningIndex(s, order) ==
    IF \E i \in 1..Len(order) : stepStatus(s, order[i]) = "running"
    THEN CHOOSE i \in 1..Len(order) :
            /\ stepStatus(s, order[i]) = "running"
            /\ \A j \in 1..(i - 1) : stepStatus(s, order[j]) # "running"
    ELSE 0

firstNotDoneIndexSkipQueued(s, order) ==
    IF \E i \in 1..Len(order) : stepStatus(s, order[i]) \notin {"done", "queued"}
    THEN CHOOSE i \in 1..Len(order) :
            /\ stepStatus(s, order[i]) \notin {"done", "queued"}
            /\ \A j \in 1..(i - 1) : stepStatus(s, order[j]) \in {"done", "queued"}
    ELSE 0

\* order.findIndex((step) => steps?.[step] !== "done")
firstNotDoneIndex(s, order) ==
    IF \E i \in 1..Len(order) : stepStatus(s, order[i]) # "done"
    THEN CHOOSE i \in 1..Len(order) :
            /\ stepStatus(s, order[i]) # "done"
            /\ \A j \in 1..(i - 1) : stepStatus(s, order[j]) = "done"
    ELSE 0

activeLastAlways(s, order) == order[Len(order)]

\* RunView readiness memo: the active step
active(s, order) ==
    IF runningIndex(s, order) # 0 THEN order[runningIndex(s, order)]
    ELSE IF firstNotDoneIndex(s, order) # 0 THEN order[firstNotDoneIndex(s, order)]
    ELSE order[Len(order)]

\* appendLog
\* an appendLog that keeps only the new entry
appendLogAlone(l, line, fromUser) ==
    <<[id |-> Len(l) + 1, content |-> line, fromUser |-> fromUser]>>

appendLog(l, line, fromUser) ==
    Append(l, [id |-> Len(l) + 1, content |-> line, fromUser |-> fromUser])

\* the snapshot fetches of the current session that have not settled
SessionFetches(s) == {f \in fetches : f.session = s}

\* reset(): doneInflight = false; set(initialRunState), which has no runType
reset ==
    /\ doneInflight' = FALSE
    /\ runId' = Null
    /\ running' = FALSE
    /\ steps' = NoSteps
    /\ logs' = <<>>
    /\ last' = NoEvent
    /\ UNCHANGED runType

\* the history variables at a change of session
NewSession ==
    /\ session' = session + 1
    /\ named' = NoSteps
    /\ UNCHANGED <<fetches, nFetches>>
    /\ lastDone' = NoDone

SameSession == UNCHANGED <<session, named>>

\* initRun(runId, runType)
initRun(id, type) ==
    /\ doneInflight' = FALSE
    /\ runId' = id
    /\ runType' = type
    /\ running' = TRUE
    /\ steps' = [k \in {"router"} |-> "queued"]
    /\ logs' = <<>>
    /\ last' = NoEvent

\* the history of the last done event: whether the guard was set, whether a fetch
\* of this session was in flight, how many fetches the event issued, the messages
\* it appended to the mirror and whether it changed any state
DoneRecord(e, issued, appended, changed) ==
    [ok |-> e.ok, guard |-> doneInflight, dup |-> SessionFetches(session) # {},
     issued |-> issued, appended |-> appended, changed |-> changed, seen |-> TRUE]

\* const projectId = get().runId ?? e.projectId ?? e.project_id
doneProjectId(e) == IF runId # Null THEN runId ELSE e.projectId

\* pushEvent, e.t === "status"
PushStatus(e) ==
    /\ e.t = "status"
    /\ IF e.step # Null
       THEN /\ steps' = setStep(steps, e.step, e.state)
            /\ named' = [k \in DOMAIN named \cup {e.step} |->
                            IF k = e.step THEN e.state ELSE named[k]]
       ELSE UNCHANGED <<steps, named>>
    /\ last' = e
    /\ UNCHANGED <<project, ready, runId, running, runType, logs, doneInflight, fetches,
                   session, nFetches, starting>>
    /\ lastDone' = NoDone
    /\ EventIdle /\ UNCHANGED bufVars

\* pushEvent, e.t === "log"
PushLog(e) ==
    /\ e.t = "log"
    /\ Len(logs) < MaxLogs
    /\ logs' = appendLog(logs, IF e.chunk # Null THEN e.chunk ELSE "", FALSE)
    /\ last' = e
    /\ UNCHANGED <<project, ready, runId, running, runType, steps, doneInflight, fetches,
                   session, nFetches, named, starting>>
    /\ lastDone' = NoDone
    /\ EventIdle /\ UNCHANGED bufVars

PushTitleSetsReady(e) ==
    /\ e.t = "title.generated"
    /\ project' = renameProject(project, IF e.title # Null THEN e.title ELSE "Untitled Project")
    /\ ready' = TRUE
    /\ last' = e
    /\ UNCHANGED <<runId, running, runType, steps, logs, doneInflight, fetches,
                   session, nFetches, named, starting>>
    /\ lastDone' = NoDone
    /\ EventIdle /\ UNCHANGED bufVars

\* pushEvent, e.t === "title.generated"
PushTitle(e) ==
    /\ e.t = "title.generated"
    /\ project' = renameProject(project, IF e.title # Null THEN e.title ELSE "Untitled Project")
    /\ last' = e
    /\ UNCHANGED <<ready, runId, running, runType, steps, logs, doneInflight, fetches,
                   session, nFetches, named, starting>>
    /\ lastDone' = NoDone
    /\ EventIdle /\ UNCHANGED bufVars

\* pushEvent, any other event: only last is set
PushOther(e) ==
    /\ e.t \notin {"status", "log", "title.generated", "done"}
    /\ last' = e
    /\ UNCHANGED <<project, ready, runId, running, runType, steps, logs, doneInflight,
                   fetches, session, nFetches, named, starting>>
    /\ lastDone' = NoDone
    /\ EventIdle /\ UNCHANGED bufVars

\* pushEvent, e.t === "done", the guard set: return
PushDoneGuarded(e) ==
    /\ e.t = "done"
    /\ doneInflight
    /\ lastDone' = DoneRecord(e, 0, <<>>, FALSE)
    /\ UNCHANGED <<project, ready, runId, running, runType, steps, logs, last, doneInflight,
                   fetches, session, nFetches, named, starting>>
    /\ EventIdle /\ UNCHANGED bufVars

\* a failed done that also marks the run as not running
PushDoneFailedStops(e) ==
    /\ e.t = "done"
    /\ ~doneInflight
    /\ e.ok = FALSE
    /\ Len(project.messages) < MaxMessages
    /\ steps' = setStep(steps, "done", "done")
    /\ ready' = TRUE
    /\ project' = addMessage(project, FailureLine, FALSE)
    /\ doneInflight' = FALSE
    /\ running' = FALSE
    /\ lastDone' = DoneRecord(e, 0,
          SubSeq(project'.messages, Len(project.messages) + 1, Len(project'.messages)), TRUE)
    /\ UNCHANGED <<runId, runType, logs, last, fetches, session, nFetches,
                   named, starting>>
    /\ EventIdle /\ UNCHANGED bufVars

\* pushEvent, e.t === "done", e.ok === false: the failure line, the guard cleared, return
PushDoneFailed(e) ==
    /\ e.t = "done"
    /\ ~doneInflight
    /\ e.ok = FALSE
    /\ Len(project.messages) < MaxMessages
    /\ steps' = setStep(steps, "done", "done")
    /\ ready' = TRUE
    /\ project' = addMessage(project, FailureLine, FALSE)
    /\ doneInflight' = FALSE
    /\ lastDone' = DoneRecord(e, 0,
          SubSeq(project'.messages, Len(project.messages) + 1, Len(project'.messages)), TRUE)
    /\ UNCHANGED <<runId, running, runType, logs, last, fetches, session, nFetches,
                   named, starting>>
    /\ EventIdle /\ UNCHANGED bufVars

\* pushEvent, e.t === "done", success, no project id: the throw is caught, no fetch
PushDoneNoId(e) ==
    /\ e.t = "done"
    /\ ~doneInflight
    /\ e.ok # FALSE
    /\ doneProjectId(e) = Null
    /\ steps' = setStep(steps, "done", "done")
    /\ ready' = TRUE
    /\ project' = setIsPending(setIsPending(project, TRUE), FALSE)
    /\ doneInflight' = FALSE
    /\ running' = FALSE
    /\ last' = e
    /\ lastDone' = DoneRecord(e, 0, <<>>, TRUE)
    /\ UNCHANGED <<runId, runType, logs, fetches, session, nFetches, named,
                   starting>>
    /\ EventIdle /\ UNCHANGED bufVars

\* pushEvent, e.t === "done", success: the snapshot fetch is issued
PushDoneFetch(e) ==
    /\ e.t = "done"
    /\ ~doneInflight
    /\ e.ok # FALSE
    /\ doneProjectId(e) # Null
    /\ nFetches < MaxFetches
    /\ doneInflight' = TRUE
    /\ steps' = setStep(steps, "done", "done")
    /\ ready' = TRUE
    /\ project' = setIsPending(project, TRUE)
    /\ fetches' = fetches \cup
          {[n |-> nFetches + 1, projectId |-> doneProjectId(e), session |-> session,
            preReady |-> ready,
            keptAtDone |-> MirrorFields(project') = MirrorFields(project)]}
    /\ nFetches' = nFetches + 1
    /\ running' = FALSE
    /\ last' = e
    /\ lastDone' = DoneRecord(e, 1, <<>>, TRUE)
    /\ UNCHANGED <<runId, runType, logs, session, named, starting>>
    /\ EventIdle /\ UNCHANGED bufVars

PushDone(e) ==
    \/ PushDoneGuarded(e)
    \/ PushDoneFailed(e)
    \/ PushDoneNoId(e)
    \/ PushDoneFetch(e)

\* useRunStore.pushEvent
pushEvent(e) ==
    \/ PushStatus(e)
    \/ PushLog(e)
    \/ PushTitle(e)
    \/ PushOther(e)
    \/ PushDone(e)

\* the history of a settling fetch f: whether no reset and no other settling fetch
\* came between its done event and the settling (same session, the guard still set),
\* whether the done event and the settling step each left the mirror's fields as
\* they were, the ready flag before the done event, and the snapshot applied
SettleRecord(f, ok, snapshot) ==
    [seen |-> TRUE, ok |-> ok,
     quiet |-> f.session = session /\ doneInflight,
     keptAtDone |-> f.keptAtDone,
     kept |-> MirrorFields(project') = MirrorFields(project),
     preReady |-> f.preReady, snapshot |-> snapshot]

\* the done branch's fetch succeeds: normalizeProject, applyProjectToStore, finally
FetchSucceeds(f, body) ==
    /\ f \in fetches
    /\ project' = setIsPending(
          applyProjectToStore(project,
              normalizeProject([id |-> f.projectId, title |-> body.title,
                                files |-> body.files, messages |-> body.messages])),
          FALSE)
    /\ ready' = TRUE
    /\ doneInflight' = FALSE
    /\ fetches' = fetches \ {f}
    /\ UNCHANGED <<runId, running, runType, steps, logs, last, session, nFetches, named,
                   starting>>
    /\ lastDone' = NoDone
    /\ lastSettle' = SettleRecord(f, TRUE,
          normalizeProject([id |-> f.projectId, title |-> body.title,
                            files |-> body.files, messages |-> body.messages]))
    /\ lastKill' = NoKill
    /\ StreamIdle
    /\ mut' = IF mut.phase = "request" THEN [mut EXCEPT !.replaced = TRUE] ELSE mut
    /\ writes' = {[w EXCEPT !.replaced = TRUE] : w \in writes}
    /\ UNCHANGED <<nRequests, loading>> /\ lastEdit' = NoEdit
    /\ UNCHANGED <<bufKey, prevContentRef, latestContentRef, timerRefLive, liveTimers,
                   burst, burstBase, nSaves, lastWrite, lastFail, lastKey>>
    /\ confirmed' = NoConfirmed
    /\ UNCHANGED bufMounted

FetchFailsKeepGuard(f) ==
    /\ f \in fetches
    /\ project' = setIsPending(project, FALSE)
    /\ fetches' = fetches \ {f}
    /\ UNCHANGED <<ready, runId, running, runType, steps, logs, last, session, nFetches,
                   named, starting, doneInflight>>
    /\ lastDone' = NoDone
    /\ lastSettle' = SettleRecord(f, FALSE, NoSettle.snapshot)
    /\ lastKill' = NoKill
    /\ StreamIdle
    /\ UNCHANGED <<mut, nRequests, loading>> /\ lastEdit' = NoEdit
    /\ UNCHANGED bufVars

\* the done branch's fetch fails: catch, finally
FetchFails(f) ==
    /\ f \in fetches
    /\ project' = setIsPending(project, FALSE)
    /\ doneInflight' = FALSE
    /\ fetches' = fetches \ {f}
    /\ UNCHANGED <<ready, runId, running, runType, steps, logs, last, session, nFetches,
                   named, starting>>
    /\ lastDone' = NoDone
    /\ lastSettle' = SettleRecord(f, FALSE, NoSettle.snapshot)
    /\ lastKill' = NoKill
    /\ StreamIdle
    /\ UNCHANGED <<mut, nRequests, loading>> /\ lastEdit' = NoEdit
    /\ UNCHANGED bufVars

-----------------------------------------------------------------------------
(* Session changes: cancel, new project, run launches *)

\* resetProject(title)
resetProject(title) ==
    /\ project' = createEmptyProject(title)
    /\ ready' = FALSE

\* useKillRun onSuccess: reset()
\* the causes that make the mutationFn of useKillRun throw: no token, a response
\* that is not ok, a fetch that rejects
KillFailures == {"no token", "not ok", "network"}

\* useKillRun: the kill request resolves; onSuccess: reset()
KillRunSuccess ==
    /\ session <= MaxSessions
    /\ reset
    /\ NewSession
    /\ UNCHANGED <<project, ready, starting>>
    /\ UNCHANGED <<mut, nRequests, loading>> /\ lastEdit' = NoEdit
    /\ lastSettle' = NoSettle
    /\ lastKill' = [seen |-> TRUE, ok |-> TRUE, cause |-> Null]
    /\ StreamIdle
    /\ UNCHANGED bufVars

\* useKillRun: the mutationFn throws; the mutation has no onError and no onSettled
KillRunFails(cause) ==
    /\ UNCHANGED <<project, ready, runVars>>
    /\ UNCHANGED <<mut, nRequests, loading>> /\ lastEdit' = NoEdit
    /\ lastSettle' = NoSettle
    /\ lastKill' = [seen |-> TRUE, ok |-> FALSE, cause |-> cause]
    /\ StreamIdle
    /\ UNCHANGED bufVars

\* newProject(title): run.reset(); proj.resetProject(title); run.setRunning(false)
newProject(title) ==
    /\ session < MaxSessions
    /\ reset
    /\ resetProject(title)
    /\ NewSession
    /\ UNCHANGED starting
    /\ EditIdle /\ UNCHANGED bufVars

\* NewRun.handleStart up to the start request: onReady(run_id) is startGeneration(run_id)
startGeneration(rid) ==
    /\ session < MaxSessions
    /\ starting = NoStart
    /\ doneInflight' = FALSE
    /\ runId' = rid
    /\ running' = TRUE
    /\ steps' = NoSteps
    /\ logs' = <<>>
    /\ last' = NoEvent
    /\ UNCHANGED runType
    /\ resetProject("Generating")
    /\ NewSession
    /\ starting' = [kind |-> "generate", id |-> rid]
    /\ EditIdle /\ UNCHANGED bufVars

\* ModifyProject.handleStart up to the modify request: initRun(id, "modify")
ModifyStart ==
    /\ session < MaxSessions
    /\ starting = NoStart
    /\ project.id # ""
    /\ initRun(project.id, "modify")
    /\ NewSession
    /\ starting' = [kind |-> "modify", id |-> project.id]
    /\ UNCHANGED <<project, ready>>
    /\ EditIdle /\ UNCHANGED bufVars

\* the rest of NewRun.handleStart / ModifyProject.handleStart, after the request resolved
StartSettled ==
    /\ session <= MaxSessions
    /\ starting # NoStart
    /\ doneInflight' = FALSE
    /\ runId' = starting.id
    /\ running' = TRUE
    /\ steps' = NoSteps
    /\ logs' = appendLog(<<>>, "prompt", TRUE)
    /\ last' = NoEvent
    /\ IF starting.kind = "generate"
       THEN /\ runType' = "generate"
            /\ project' = setId(createEmptyProject("Undefined Project"), starting.id)
            /\ ready' = FALSE
       ELSE UNCHANGED <<runType, project, ready>>
    /\ NewSession
    /\ starting' = NoStart
    /\ EditIdle /\ UNCHANGED bufVars

\* the start/modify request rejects: the handler's continuation never runs
StartRejected ==
    /\ starting # NoStart
    /\ starting' = NoStart
    /\ UNCHANGED <<project, ready, runId, running, runType, steps, logs, last, doneInflight,
                   fetches, session, nFetches, named>>
    /\ lastDone' = NoDone
    /\ EditIdle /\ UNCHANGED bufVars

-----------------------------------------------------------------------------
(* The code editor's file mutations: rename, add, delete *)

\* the names a user may type for a new or renamed file
NewNames == {"a.ts", "b.ts", "c.ts"}

NoMut == [op |-> Null, phase |-> Null, name |-> Null, newName |-> Null,
          prevFiles |-> <<>>, prevActive |-> Null, preFiles |-> <<>>, preActive |-> Null,
          replaced |-> FALSE]

\* history of a file mutation step: the mirror before the operation, the mirror
\* after this step, whether the requested name was already taken and how many
\* remote requests the step issued
EditRecord(op, outcome, name, collision, requests, preFiles, preActive) ==
    [op |-> op, outcome |-> outcome, name |-> name, collision |-> collision,
     requests |-> requests, preFiles |-> preFiles, preActive |-> preActive,
     postFiles |-> project'.files, postActive |-> project'.activeFile,
     replaced |-> mut.replaced,
     kept |-> project'.files = project.files /\ project'.activeFile = project.activeFile]

nameExistsNever(files, name) == FALSE

\* project.files.some((f) => f.name === name)
nameExists(files, name) == \E i \in 1..Len(files) : files[i].name = name

\* prevFiles.filter((file) => file.name !== name)
RECURSIVE filterOut(_, _)
filterOut(files, name) ==
    IF files = <<>> THEN <<>>
    ELSE IF Head(files).name = name THEN filterOut(Tail(files), name)
    ELSE <<Head(files)>> \o filterOut(Tail(files), name)

\* project.files.map((f) => f.name === oldName ? { ...f, name: newName } : f)
renameIn(files, oldName, newName) ==
    [i \in 1..Len(files) |->
        IF files[i].name = oldName THEN [files[i] EXCEPT !.name = newName] ELSE files[i]]

\* the rename, add and delete buttons are disabled while one of the three is pending
NoMutationPending == mut = NoMut

EditFrame ==
    /\ UNCHANGED <<ready, runVars, bufVars, loading>>
    /\ lastSettle' = NoSettle /\ lastKill' = NoKill
    /\ StreamIdle

\* CodeEditor.handleRenameFile: rejected by the handler's own name check
RenameRejectedByHandler(oldName, newName) ==
    /\ NoMutationPending
    /\ nameExists(project.files, oldName)
    /\ newName # oldName
    /\ nameExists(project.files, newName)
    /\ UNCHANGED <<project, mut, nRequests>>
    /\ lastEdit' = EditRecord("rename", "rejected", newName,
                              newName \in FileNames(project.files), 0,
                              project.files, project.activeFile)
    /\ EditFrame

\* CodeEditor.handleRenameFile: renameFile({ oldName, newName }); onMutate starts and
\* waits for qc.cancelQueries
RenameRequested(oldName, newName) ==
    /\ NoMutationPending
    /\ nameExists(project.files, oldName)
    /\ newName # oldName
    /\ ~nameExists(project.files, newName)
    /\ mut' = [NoMut EXCEPT !.op = "rename", !.phase = "mutate", !.name = oldName,
                            !.newName = newName]
    /\ lastEdit' = NoEdit
    /\ lastSettle' = NoSettle /\ lastKill' = NoKill
    /\ UNCHANGED <<project, nRequests>>
    /\ EditFrame

\* useRenameFile.onMutate after the await: the name is taken, the throw skips the
\* request; onError runs without a context and changes nothing
RenameRejectedByMutate ==
    /\ mut.op = "rename"
    /\ mut.phase = "mutate"
    /\ nameExists(project.files, mut.newName)
    /\ mut' = NoMut
    /\ UNCHANGED <<project, nRequests>>
    /\ lastEdit' = EditRecord("rename", "rejected", mut.newName,
                              mut.newName \in FileNames(project.files), 0,
                              project.files, project.activeFile)
    /\ EditFrame

renameApplyNoFollow(p, oldName, newName) ==
    setFiles(p, renameIn(p.files, oldName, newName))

\* useRenameFile.onMutate: setFiles(nextFiles); the selection follows the renamed file
renameApply(p, oldName, newName) ==
    IF p.activeFile = oldName
    THEN setActiveFile(setFiles(p, renameIn(p.files, oldName, newName)), newName)
    ELSE setFiles(p, renameIn(p.files, oldName, newName))

\* useRenameFile.onMutate after the await: optimistic rename, then the request
RenameApplied ==
    /\ mut.op = "rename"
    /\ mut.phase = "mutate"
    /\ ~nameExists(project.files, mut.newName)
    /\ project' = renameApply(project, mut.name, mut.newName)
    /\ mut' = [mut EXCEPT !.phase = "request",
                          !.prevFiles = project.files, !.prevActive = project.activeFile,
                          !.preFiles = project.files, !.preActive = project.activeFile]
    /\ nRequests' = nRequests + 1
    /\ lastEdit' = EditRecord("rename", "applied", mut.newName,
                              mut.newName \in FileNames(project.files), 1,
                              project.files, project.activeFile)
    /\ EditFrame

renameRollbackFilesOnly(p, prevFiles, prevActive) == setFiles(p, prevFiles)

\* useRenameFile.onError: setFiles(ctx.prevFiles); setActiveFile(ctx.prevActive ?? null)
renameRollback(p, prevFiles, prevActive) ==
    setActiveFile(setFiles(p, prevFiles), prevActive)

RenameFails ==
    /\ mut.op = "rename"
    /\ mut.phase = "request"
    /\ project' = renameRollback(project, mut.prevFiles, mut.prevActive)
    /\ mut' = NoMut
    /\ lastEdit' = EditRecord("rename", "failed", mut.newName, FALSE, 0,
                              mut.preFiles, mut.preActive)
    /\ nRequests' = nRequests - 1
    /\ EditFrame

\* the rename request succeeds: onSettled only invalidates the cached query
RenameSucceeds ==
    /\ mut.op = "rename"
    /\ mut.phase = "request"
    /\ mut' = NoMut
    /\ nRequests' = nRequests - 1
    /\ UNCHANGED project
    /\ lastEdit' = EditRecord("rename", "ok", mut.newName, FALSE, 0,
                              mut.preFiles, mut.preActive)
    /\ EditFrame

\* CodeEditor.handleAddFile: the name exists, alert and return
AddRejected(newName) ==
    /\ NoMutationPending
    /\ nameExists(project.files, newName)
    /\ UNCHANGED <<project, mut, nRequests>>
    /\ lastEdit' = EditRecord("add", "rejected", newName,
                              newName \in FileNames(project.files), 0,
                              project.files, project.activeFile)
    /\ EditFrame

InitialContent == <<"n">>

\* CodeEditor.handleAddFile: setFiles(nextFiles); setActiveFile(newName)
addApply(p, newName) ==
    setActiveFile(
        setFiles(p, Append(p.files, [name |-> newName, content |-> InitialContent])),
        newName)

AddApplied(newName) ==
    /\ NoMutationPending
    /\ ~nameExists(project.files, newName)
    /\ project' = addApply(project, newName)
    /\ mut' = [NoMut EXCEPT !.op = "add", !.phase = "request", !.name = newName,
                            !.prevFiles = project.files, !.prevActive = project.activeFile,
                            !.preFiles = project.files, !.preActive = project.activeFile]
    /\ nRequests' = nRequests + 1
    /\ lastEdit' = EditRecord("add", "applied", newName,
                              newName \in FileNames(project.files), 1,
                              project.files, project.activeFile)
    /\ EditFrame

addRollbackFirst(p, prevFiles, prevActive, newName) ==
    setActiveFile(setFiles(p, prevFiles), firstName(prevFiles))

\* handleAddFile onError: setFiles(project.files); the selection returns to the
\* captured one, or to the first file when none was captured
addRollback(p, prevFiles, prevActive, newName) ==
    IF prevActive # Null /\ prevActive # "" /\ prevActive # newName
    THEN setActiveFile(setFiles(p, prevFiles), prevActive)
    ELSE setActiveFile(setFiles(p, prevFiles), firstName(prevFiles))

AddFails ==
    /\ mut.op = "add"
    /\ mut.phase = "request"
    /\ project' = addRollback(project, mut.prevFiles, mut.prevActive, mut.name)
    /\ mut' = NoMut
    /\ lastEdit' = EditRecord("add", "failed", mut.name, FALSE, 0,
                              mut.preFiles, mut.preActive)
    /\ nRequests' = nRequests - 1
    /\ EditFrame

\* useAddFile onSuccess: only cached queries are invalidated
AddSucceeds ==
    /\ mut.op = "add"
    /\ mut.phase = "request"
    /\ mut' = NoMut
    /\ nRequests' = nRequests - 1
    /\ UNCHANGED project
    /\ lastEdit' = EditRecord("add", "ok", mut.name, FALSE, 0,
                              mut.preFiles, mut.preActive)
    /\ EditFrame

deleteApplyFirstAlways(p, name) ==
    setActiveFile(setFiles(p, filterOut(p.files, name)), firstName(filterOut(p.files, name)))

deleteApplyKeepSelection(p, name) == [p EXCEPT !.files = filterOut(p.files, name)]

\* CodeEditor.handleDeleteFile: setFiles(newFiles); a deleted selection falls back to
\* the first remaining file
deleteApply(p, name) ==
    IF name = p.activeFile
    THEN setActiveFile(setFiles(p, filterOut(p.files, name)),
                       firstName(filterOut(p.files, name)))
    ELSE setFiles(p, filterOut(p.files, name))

DeleteApplied(name) ==
    /\ NoMutationPending
    /\ nameExists(project.files, name)
    /\ project' = deleteApply(project, name)
    /\ mut' = [NoMut EXCEPT !.op = "delete", !.phase = "request", !.name = name,
                            !.prevFiles = project.files, !.prevActive = project.activeFile,
                            !.preFiles = project.files, !.preActive = project.activeFile]
    /\ nRequests' = nRequests + 1
    /\ lastEdit' = EditRecord("delete", "applied", name, FALSE, 1,
                              project.files, project.activeFile)
    /\ EditFrame

deleteRollbackFilesOnly(p, prevFiles, prevActive) == setFiles(p, prevFiles)

\* handleDeleteFile onError: setFiles(prevFiles); setActiveFile(prevActive)
deleteRollback(p, prevFiles, prevActive) ==
    setActiveFile(setFiles(p, prevFiles), prevActive)

DeleteFails ==
    /\ mut.op = "delete"
    /\ mut.phase = "request"
    /\ project' = deleteRollback(project, mut.prevFiles, mut.prevActive)
    /\ mut' = NoMut
    /\ lastEdit' = EditRecord("delete", "failed", mut.name, FALSE, 0,
                              mut.preFiles, mut.preActive)
    /\ nRequests' = nRequests - 1
    /\ EditFrame

\* useDeleteFile onSuccess: only cached queries are invalidated
DeleteSucceeds ==
    /\ mut.op = "delete"
    /\ mut.phase = "request"
    /\ mut' = NoMut
    /\ nRequests' = nRequests - 1
    /\ UNCHANGED project
    /\ lastEdit' = EditRecord("delete", "ok", mut.name, FALSE, 0,
                              mut.preFiles, mut.preActive)
    /\ EditFrame

\* a step of a file mutation that starts while another one is in flight, or that
\* settles the one that was overlapped
OverlapFrame ==
    /\ UNCHANGED <<ready, runVars, bufVars, loading>>
    /\ lastEdit' = NoEdit /\ lastSettle' = NoSettle /\ lastKill' = NoKill
    /\ UNCHANGED <<es, inbox, nArrived, token, esToken, esGen, open, inboxGen>>
    /\ lastItem' = NoItem

\* an add that pushes the name without the handler's name check
AddOverlappingUnchecked(newName) ==
    /\ mut.phase = "request"
    /\ parked = NoMut
    /\ parked' = mut
    /\ project' = addApply(project, newName)
    /\ mut' = [NoMut EXCEPT !.op = "add", !.phase = "request", !.name = newName,
                            !.prevFiles = project.files, !.prevActive = project.activeFile,
                            !.preFiles = project.files, !.preActive = project.activeFile]
    /\ nRequests' = nRequests + 1
    /\ OverlapFrame

\* CodeEditor.handleAddFile while the request of another file mutation is in flight
AddOverlapping(newName) ==
    /\ mut.phase = "request"
    /\ parked = NoMut
    /\ ~nameExists(project.files, newName)
    /\ parked' = mut
    /\ project' = addApply(project, newName)
    /\ mut' = [NoMut EXCEPT !.op = "add", !.phase = "request", !.name = newName,
                            !.prevFiles = project.files, !.prevActive = project.activeFile,
                            !.preFiles = project.files, !.preActive = project.activeFile]
    /\ nRequests' = nRequests + 1
    /\ OverlapFrame

\* CodeEditor.handleDeleteFile while the request of another file mutation is in flight
DeleteOverlapping(name) ==
    /\ mut.phase = "request"
    /\ parked = NoMut
    /\ nameExists(project.files, name)
    /\ parked' = mut
    /\ project' = deleteApply(project, name)
    /\ mut' = [NoMut EXCEPT !.op = "delete", !.phase = "request", !.name = name,
                            !.prevFiles = project.files, !.prevActive = project.activeFile,
                            !.preFiles = project.files, !.preActive = project.activeFile]
    /\ nRequests' = nRequests + 1
    /\ OverlapFrame

\* CodeEditor.handleRenameFile while the request of another file mutation is in
\* flight: renameFile is called, onMutate waits for cancelQueries
RenameOverlapping(oldName, newName) ==
    /\ mut.phase = "request"
    /\ parked = NoMut
    /\ nameExists(project.files, oldName)
    /\ newName # oldName
    /\ ~nameExists(project.files, newName)
    /\ parked' = mut
    /\ mut' = [NoMut EXCEPT !.op = "rename", !.phase = "mutate", !.name = oldName,
                            !.newName = newName]
    /\ UNCHANGED <<project, nRequests>>
    /\ OverlapFrame

\* the request of the overlapped file mutation fails: its onError restores the
\* files and the selection it captured
ParkedFails ==
    /\ parked # NoMut
    /\ project' = IF parked.op = "add"
                  THEN addRollback(project, parked.prevFiles, parked.prevActive, parked.name)
                  ELSE IF parked.op = "delete"
                  THEN deleteRollback(project, parked.prevFiles, parked.prevActive)
                  ELSE renameRollback(project, parked.prevFiles, parked.prevActive)
    /\ parked' = NoMut
    /\ nRequests' = nRequests - 1
    /\ UNCHANGED mut
    /\ OverlapFrame

\* the request of the overlapped file mutation succeeds
ParkedSucceeds ==
    /\ parked # NoMut
    /\ parked' = NoMut
    /\ nRequests' = nRequests - 1
    /\ UNCHANGED <<project, mut>>
    /\ OverlapFrame

\* FileRow button: setActiveFile(node.path)
SelectFile(name) ==
    /\ nameExists(project.files, name)
    /\ project.activeFile # name
    /\ project' = setActiveFile(project, name)
    /\ EditIdle
    /\ UNCHANGED <<ready, runVars, bufVars>>

-----------------------------------------------------------------------------
(* useFetchProject: a project picked from the project list is loaded *)

ListedProjects == {"p1"}

\* onSuccess: the files with object contents turned into text, then the store calls
loadedFiles(data) ==
    [i \in 1..Len(data.files) |->
        [name |-> data.files[i].name, content |-> normalizeContent(data.files[i].content)]]

applyLoaded(p, data) ==
    setMessages(setId(renameProject(
        setActiveFile(setFiles(p, loadedFiles(data)), firstName(loadedFiles(data))),
        data.title), data.id), data.messages)

\* the list row's onClick: if (isPending) return; loadProject(p.id); onMutate
LoadRequested(id) ==
    /\ loading = Null
    /\ loading' = id
    /\ project' = setIsPending(project, TRUE)
    /\ lastEdit' = NoEdit
    /\ lastSettle' = NoSettle /\ lastKill' = NoKill
    /\ StreamIdle
    /\ UNCHANGED <<mut, nRequests, ready, runVars, bufVars>>

\* onSuccess applies the response to the store, onSettled clears isPending
LoadSucceeds(body) ==
    /\ loading # Null
    /\ loading' = Null
    /\ project' = setIsPending(
          applyLoaded(project, [id |-> loading, title |-> body.title,
                                files |-> body.files, messages |-> body.messages]), FALSE)
    /\ ready' = TRUE
    /\ lastEdit' = NoEdit
    /\ lastSettle' = NoSettle /\ lastKill' = NoKill
    /\ StreamIdle
    /\ UNCHANGED <<mut, nRequests, runVars>>
    /\ UNCHANGED <<bufKey, prevContentRef, latestContentRef, timerRefLive, liveTimers, writes,
                   burst, burstBase, nSaves, lastWrite, lastFail, lastKey>>
    /\ confirmed' = NoConfirmed
    /\ UNCHANGED bufMounted

\* onError only logs, onSettled clears isPending
LoadFails ==
    /\ loading # Null
    /\ loading' = Null
    /\ project' = setIsPending(project, FALSE)
    /\ lastEdit' = NoEdit
    /\ lastSettle' = NoSettle /\ lastKill' = NoKill
    /\ StreamIdle
    /\ UNCHANGED <<mut, nRequests, ready, runVars, bufVars>>

-----------------------------------------------------------------------------
(* useDebouncedFileSave, as CodeEditor uses it *)

\* the contents a user may type or save
SaveContents == { <<>>, <<"S", "y">> }

\* projectId: project?.id ?? "", fileName: activeFile ?? ""
hookProjectId == project.id
hookFileName == IF project.activeFile = Null THEN "" ELSE project.activeFile
CurrentKey == <<hookProjectId, hookFileName>>

\* the key effect has run for the key of the last render
KeySettled == bufKey = CurrentKey

NoWrite == [by |-> Null, fileName |-> Null, content |-> <<>>, burst |-> <<>>, issued |-> 0]
NoFail == [seen |-> FALSE, fileName |-> Null, updates |-> 0, base |-> <<>>, after |-> <<>>,
           replaced |-> FALSE, kept |-> FALSE, confirmed |-> NoConfirmed]

\* a step that is no remote write being issued or failing
BufIdle == lastWrite' = NoWrite /\ lastFail' = NoFail /\ lastKey' = NoKey

\* a key effect that leaves the pending timer and the latest content alone
KeyEffectKeepTimer ==
    /\ bufMounted
    /\ ~KeySettled
    /\ bufKey' = CurrentKey
    /\ prevContentRef' = EmptyContent
    /\ UNCHANGED <<latestContentRef, liveTimers, timerRefLive, burst, burstBase>>
    /\ lastWrite' = NoWrite /\ lastFail' = NoFail
    /\ lastKey' = [seen |-> TRUE, timer |-> timerRefLive, fileName |-> bufKey[2],
                   dropped |-> burst]
    /\ confirmed' = NoConfirmed
    /\ UNCHANGED bufMounted
    /\ UNCHANGED <<writes, nSaves>>
    /\ EditIdle
    /\ UNCHANGED <<project, ready, runVars>>

\* useEffect on [key]: both refs are emptied and a pending timer is cleared
KeyEffect ==
    /\ bufMounted
    /\ ~KeySettled
    /\ bufKey' = CurrentKey
    /\ latestContentRef' = EmptyContent
    /\ prevContentRef' = EmptyContent
    /\ liveTimers' = IF timerRefLive THEN liveTimers - 1 ELSE liveTimers
    /\ timerRefLive' = FALSE
    /\ burst' = <<>>
    /\ burstBase' = <<>>
    /\ lastWrite' = NoWrite /\ lastFail' = NoFail
    /\ lastKey' = [seen |-> TRUE, timer |-> timerRefLive, fileName |-> bufKey[2],
                   dropped |-> burst]
    /\ confirmed' = NoConfirmed
    /\ UNCHANGED bufMounted
    /\ UNCHANGED <<writes, nSaves>>
    /\ EditIdle
    /\ UNCHANGED <<project, ready, runVars>>

timersAfterSaveNoClear(refLive, n) == n + 1

\* if (timerRef.current) clearTimeout(timerRef.current); timerRef.current = setTimeout(...)
timersAfterSave(refLive, n) == IF refLive THEN n ELSE n + 1

\* if (!prevContentRef.current) prevContentRef.current = <the file's content in the store>
prevAfterSave(prev, files, fileName) ==
    IF prev = EmptyContent THEN contentOf(files, fileName) ELSE prev

\* save(content), on the project p it finds in the store; base is the content the
\* file had before this update
SaveEffects(p, content, base) ==
    /\ hookProjectId # ""
    /\ hookFileName # ""
    /\ bufMounted
    /\ KeySettled
    /\ nSaves < MaxSaves
    /\ prevContentRef' = prevAfterSave(prevContentRef, p.files, hookFileName)
    /\ latestContentRef' = content
    /\ project' = updateFile(p, hookFileName, content)
    /\ liveTimers' = timersAfterSave(timerRefLive, liveTimers)
    /\ timerRefLive' = TRUE
    /\ burst' = Append(IF timerRefLive THEN burst ELSE <<>>, content)
    /\ burstBase' = IF timerRefLive THEN burstBase ELSE base
    /\ nSaves' = nSaves + 1
    /\ BufIdle
    /\ UNCHANGED <<bufKey, writes, confirmed, bufMounted>>
    /\ EditIdle
    /\ UNCHANGED <<ready, runVars>>

\* useDebouncedFileSave.save called alone (CodeEditor.handleSave)
save(content) ==
    SaveEffects(project, content, contentOf(project.files, hookFileName))

\* CodeMirror onChange: updateFile(activeFile, val); save(val)
EditorChange(val) ==
    /\ project.activeFile # Null
    /\ SaveEffects(updateFile(project, project.activeFile, val), val,
                   contentOf(project.files, hookFileName))

\* mutationFn: the latest content, with the tw-built style block stripped for index.html
contentToSave(raw, fileName) ==
    IF endsWithIndexHtml(fileName) THEN stripTwBuilt(raw) ELSE raw

\* the write records in flight carry a free index to tell equal writes apart
FreeWrite == CHOOSE n \in 1..MaxOverlap : \A w \in writes : w.n # n

\* mutation.mutate(): onMutate sets isPending, mutationFn issues the PATCH
Mutate(by) ==
    /\ Cardinality(writes) < MaxOverlap
    /\ project' = setIsPending(project, TRUE)
    /\ writes' = {[w EXCEPT !.last = FALSE] : w \in writes} \cup
          {[n |-> FreeWrite, projectId |-> hookProjectId, fileName |-> hookFileName,
            content |-> contentToSave(latestContentRef, hookFileName),
            raw |-> latestContentRef,
            updates |-> Len(burst), base |-> burstBase, replaced |-> FALSE,
            last |-> TRUE, over |-> writes # {}]}
    /\ lastWrite' = [by |-> by, fileName |-> hookFileName,
                     content |-> contentToSave(latestContentRef, hookFileName),
                     burst |-> burst,
                     issued |-> Cardinality(writes') - Cardinality(writes)]
    /\ lastFail' = NoFail
    /\ lastKey' = NoKey
    /\ burst' = <<>>
    /\ burstBase' = <<>>

\* the delay timer expires: mutation.mutate()
TimerFires ==
    /\ liveTimers > 0
    /\ bufMounted => KeySettled
    /\ liveTimers' = liveTimers - 1
    /\ timerRefLive' = IF liveTimers = 1 THEN FALSE ELSE timerRefLive
    /\ Mutate("timer")
    /\ UNCHANGED <<bufKey, prevContentRef, latestContentRef, nSaves, confirmed, bufMounted>>
    /\ EditIdle
    /\ UNCHANGED <<ready, runVars>>

\* a flush() that leaves the pending timer running
flushKeepTimer ==
    /\ hookProjectId # ""
    /\ hookFileName # ""
    /\ bufMounted
    /\ KeySettled
    /\ UNCHANGED <<liveTimers, timerRefLive>>
    /\ Mutate("flush")
    /\ UNCHANGED <<bufKey, prevContentRef, latestContentRef, nSaves, confirmed, bufMounted>>
    /\ EditIdle
    /\ UNCHANGED <<ready, runVars>>

\* flush(): the pending timer is cleared and mutation.mutate() runs at once
flush ==
    /\ hookProjectId # ""
    /\ hookFileName # ""
    /\ bufMounted
    /\ KeySettled
    /\ liveTimers' = IF timerRefLive THEN liveTimers - 1 ELSE liveTimers
    /\ timerRefLive' = FALSE
    /\ Mutate("flush")
    /\ UNCHANGED <<bufKey, prevContentRef, latestContentRef, nSaves, confirmed, bufMounted>>
    /\ EditIdle
    /\ UNCHANGED <<ready, runVars>>

\* the PATCH succeeds: onSettled clears isPending; the refs are left as they are
WriteSucceeds(w) ==
    /\ w \in writes
    /\ bufMounted => KeySettled
    /\ writes' = writes \ {w}
    /\ project' = setIsPending(project, FALSE)
    /\ BufIdle
    /\ UNCHANGED bufMounted
    /\ confirmed' = IF w.projectId = hookProjectId /\ w.fileName = hookFileName
                    THEN [seen |-> TRUE, content |-> w.raw, updates |-> w.updates,
                          lastOk |-> IF w.last THEN TRUE ELSE confirmed.lastOk,
                          lastContent |-> IF w.last THEN w.raw ELSE confirmed.lastContent,
                          lastOver |-> IF w.last THEN w.over ELSE confirmed.lastOver]
                    ELSE confirmed
    /\ UNCHANGED <<bufKey, prevContentRef, latestContentRef, timerRefLive, liveTimers,
                   burst, burstBase, nSaves>>
    /\ EditIdle
    /\ UNCHANGED <<ready, runVars>>

\* onError: if (prevContentRef.current) updateFile(fileName, prevContentRef.current)
writeRollback(p, fileName, prev) ==
    IF prev # EmptyContent THEN updateFile(p, fileName, prev) ELSE p

\* the PATCH fails: onError, then onSettled, both with the fileName of the last render
WriteFails(w) ==
    /\ w \in writes
    /\ bufMounted => KeySettled
    /\ writes' = writes \ {w}
    /\ project' = setIsPending(writeRollback(project, hookFileName, prevContentRef), FALSE)
    /\ lastFail' = [seen |-> TRUE, fileName |-> w.fileName, updates |-> w.updates,
                    base |-> w.base, after |-> contentOf(project'.files, w.fileName),
                    replaced |-> w.replaced,
                    kept |-> project'.files = project.files
                             /\ project'.activeFile = project.activeFile,
                    confirmed |-> confirmed]
    /\ lastWrite' = NoWrite
    /\ lastKey' = NoKey
    /\ confirmed' = IF w.last THEN [confirmed EXCEPT !.lastOk = FALSE] ELSE confirmed
    /\ UNCHANGED <<bufKey, prevContentRef, latestContentRef, timerRefLive, liveTimers,
                   burst, burstBase, nSaves, bufMounted>>
    /\ EditIdle
    /\ UNCHANGED <<ready, runVars>>

\* an unmount of the owner that leaves the pending timer running
UnmountKeepTimer ==
    /\ bufMounted
    /\ bufMounted' = FALSE
    /\ BufIdle
    /\ UNCHANGED <<bufKey, prevContentRef, latestContentRef, timerRefLive, liveTimers,
                   writes, burst, burstBase, nSaves, confirmed>>
    /\ EditIdle
    /\ UNCHANGED <<project, ready, runVars>>

\* the owner of the hook unmounts: the cleanup of the mount effect clears the timer
\* that timerRef holds
Unmount ==
    /\ bufMounted
    /\ bufMounted' = FALSE
    /\ liveTimers' = IF timerRefLive THEN liveTimers - 1 ELSE liveTimers
    /\ timerRefLive' = FALSE
    /\ BufIdle
    /\ UNCHANGED <<bufKey, prevContentRef, latestContentRef, writes, burst, burstBase,
                   nSaves, confirmed>>
    /\ EditIdle
    /\ UNCHANGED <<project, ready, runVars>>

\* the owner mounts again: a new instance of the hook with fresh refs, whose key
\* effect runs for the key of its first render
Mount ==
    /\ ~bufMounted
    /\ bufMounted' = TRUE
    /\ bufKey' = CurrentKey
    /\ latestContentRef' = EmptyContent
    /\ prevContentRef' = EmptyContent
    /\ timerRefLive' = FALSE
    /\ burst' = <<>>
    /\ burstBase' = <<>>
    /\ BufIdle
    /\ confirmed' = NoConfirmed
    /\ UNCHANGED <<liveTimers, writes, nSaves>>
    /\ EditIdle
    /\ UNCHANGED <<project, ready, runVars>>

-----------------------------------------------------------------------------
(* useDeleteProject: deleting a project of the project list *)

\* the identifiers of the projects in the list
DeletableProjects == {"p1", "p2"}

\* the delete request succeeds: onSuccess calls resetProject() and invalidates
\* cached queries
DeleteProjectSucceeds(projectId) ==
    /\ resetProject("Undefined Project")
    /\ UNCHANGED runVars
    /\ EditIdle
    /\ UNCHANGED bufVars

\* the delete request fails: onError restores the cached project list
DeleteProjectFails(projectId) ==
    /\ UNCHANGED <<project, ready, runVars>>
    /\ EditIdle
    /\ UNCHANGED bufVars

-----------------------------------------------------------------------------
(* useRunEvents: the consumer of the run's event stream *)

\* msg.data: the JSON text of an event, or text that JSON.parse rejects
Item(e) == [json |-> TRUE, e |-> e]
BadItem == [json |-> FALSE, e |-> NoEvent]

\* a step of the stream consumer that leaves the stores alone
StoreIdle ==
    /\ UNCHANGED <<project, ready, runId, running, runType, steps, logs, last,
                   doneInflight, fetches, session, nFetches, named, starting>>
    /\ lastDone' = NoDone
    /\ EventIdle
    /\ UNCHANGED bufVars

\* the tokens of the auth store
Tokens == {"t1", "t2"}

\* MainLayout renders RunView, which calls useRunEvents(runId), while the view is
\* "run", that is while running; the effect returns early without a run id
wantedRun == IF running THEN runId ELSE Null

\* the positions of seq whose EventSource is in gens
KeepOpen(seq, gens) ==
    LET F[i \in 0..Len(seq)] ==
            IF i = 0 THEN <<>>
            ELSE IF inboxGen[i] \in gens THEN Append(F[i - 1], seq[i]) ELSE F[i - 1]
    IN F[Len(seq)]

RunEventsEffectNoCleanup ==
    /\ es # wantedRun \/ (es # Null /\ esToken # token)
    /\ wantedRun # Null => esGen < MaxChannels
    /\ es' = wantedRun
    /\ esToken' = IF wantedRun # Null THEN token ELSE Null
    /\ esGen' = IF wantedRun # Null THEN esGen + 1 ELSE esGen
    /\ open' = open \cup (IF wantedRun # Null THEN {esGen + 1} ELSE {})
    /\ UNCHANGED <<inbox, inboxGen>>
    /\ lastItem' = NoItem
    /\ UNCHANGED <<nArrived, token>>
    /\ StoreIdle

\* the effect of useRunEvents after RunView mounted or unmounted or runId or token
\* changed: the cleanup closes the EventSource the effect's last run constructed,
\* and with a run id a new one is constructed
RunEventsEffect ==
    /\ es # wantedRun \/ (es # Null /\ esToken # token)
    /\ wantedRun # Null => esGen < MaxChannels
    /\ es' = wantedRun
    /\ esToken' = IF wantedRun # Null THEN token ELSE Null
    /\ esGen' = IF wantedRun # Null THEN esGen + 1 ELSE esGen
    /\ open' = (IF es # Null THEN open \ {esGen} ELSE open)
                  \cup (IF wantedRun # Null THEN {esGen + 1} ELSE {})
    /\ inbox' = KeepOpen(inbox, open')
    /\ inboxGen' = KeepOpen(inboxGen, open')
    /\ lastItem' = NoItem
    /\ UNCHANGED <<nArrived, token>>
    /\ StoreIdle

\* useAuthStore: the token is replaced
TokenChanged(t) ==
    /\ t # token
    /\ token' = t
    /\ UNCHANGED <<es, inbox, nArrived, esToken, esGen, open, inboxGen>>
    /\ lastItem' = NoItem
    /\ StoreIdle

\* an EventSource that is not closed receives a message
Arrive(item) ==
    /\ nArrived < MaxItems
    /\ \E g \in open :
          /\ inbox' = Append(inbox, item)
          /\ inboxGen' = Append(inboxGen, g)
    /\ nArrived' = nArrived + 1
    /\ lastItem' = NoItem
    /\ UNCHANGED <<es, token, esToken, esGen, open>>
    /\ StoreIdle

OnMessageClosing ==
    /\ inbox # <<>>
    /\ inbox' = Tail(inbox)
    /\ inboxGen' = Tail(inboxGen)
    /\ lastItem' = [seen |-> TRUE, json |-> Head(inbox).json, t |-> Head(inbox).e.t,
                    gen |-> Head(inboxGen)]
    /\ UNCHANGED <<nArrived, token, esToken, esGen>>
    /\ IF Head(inbox).json
       THEN pushEvent(Head(inbox).e) /\ UNCHANGED <<es, open>>
       ELSE StoreIdle /\ es' = Null /\ open' = {}

\* es.onmessage: try { pushEvent(JSON.parse(msg.data)) } catch { console.warn }
OnMessage ==
    /\ inbox # <<>>
    /\ inbox' = Tail(inbox)
    /\ inboxGen' = Tail(inboxGen)
    /\ lastItem' = [seen |-> TRUE, json |-> Head(inbox).json, t |-> Head(inbox).e.t,
                    gen |-> Head(inboxGen)]
    /\ UNCHANGED <<es, nArrived, token, esToken, esGen, open>>
    /\ IF Head(inbox).json
       THEN pushEvent(Head(inbox).e)
       ELSE StoreIdle

-----------------------------------------------------------------------------
(* Initial state: the stores as constructed *)

Init ==
    /\ project = createEmptyProject("Undefined Project")
    /\ ready = FALSE
    /\ runId = Null
    /\ running = FALSE
    /\ runType = Null
    /\ steps = NoSteps
    /\ logs = <<>>
    /\ last = NoEvent
    /\ doneInflight = FALSE
    /\ fetches = {}
    /\ session = 0
    /\ nFetches = 0
    /\ lastDone = NoDone
    /\ lastSettle = NoSettle
    /\ named = NoSteps
    /\ starting = NoStart
    /\ mut = NoMut
    /\ nRequests = 0
    /\ lastEdit = NoEdit
    /\ loading = Null
    /\ bufKey = <<"local", "">>
    /\ prevContentRef = EmptyContent
    /\ latestContentRef = EmptyContent
    /\ timerRefLive = FALSE
    /\ liveTimers = 0
    /\ writes = {}
    /\ burst = <<>>
    /\ burstBase = <<>>
    /\ nSaves = 0
    /\ lastWrite = NoWrite
    /\ lastFail = NoFail
    /\ confirmed = NoConfirmed
    /\ bufMounted = TRUE
    /\ parked = NoMut
    /\ lastKey = NoKey
    /\ lastKill = NoKill
    /\ es = Null
    /\ inbox = <<>>
    /\ nArrived = 0
    /\ lastItem = NoItem
    /\ token = "t1"
    /\ esToken = Null
    /\ esGen = 0
    /\ open = {}
    /\ inboxGen = <<>>

-----------------------------------------------------------------------------
(* The run session and the Completion Reconciler *)

DoneEvents == { DoneEvent(TRUE, Null), DoneEvent(TRUE, "p1"), DoneEvent(FALSE, Null) }

NextRun ==
    \/ \E e \in DoneEvents : PushDoneGuarded(e) /\ StreamIdle
    \/ \E e \in DoneEvents : PushDoneFailed(e) /\ StreamIdle
    \/ \E e \in DoneEvents : PushDoneNoId(e) /\ StreamIdle
    \/ \E e \in DoneEvents : PushDoneFetch(e) /\ StreamIdle
    \/ \E f \in fetches : \E body \in RemoteBodies : FetchSucceeds(f, body)
    \/ \E f \in fetches : FetchFails(f)
    \/ KillRunSuccess
    \/ newProject("Undefined Project")
    \/ \E rid \in RunIds : startGeneration(rid)
    \/ ModifyStart
    \/ StartSettled
    \/ StartRejected

SpecRun == Init /\ [][NextRun]_vars

\* a snapshot fetch in flight settles: fetchProjectDirect resolves or rejects
FetchSettles ==
    \E f \in fetches : FetchFails(f) \/ \E body \in RemoteBodies : FetchSucceeds(f, body)

\* the run session where every snapshot fetch eventually settles
SpecRunFair == Init /\ [][NextRun]_vars /\ WF_vars(FetchSettles)

-----------------------------------------------------------------------------
(* The step map under status events *)

\* the steps that status events name in the model
StatusSteps == {"router", "implement", "test"}

StepEvents ==
    {StatusEvent(step, state) : step \in StatusSteps, state \in StepStates}
        \cup {StatusEvent(Null, "running"), LogEvent("c"), OtherEvent("plan.ready")}

NextSteps ==
    \/ \E e \in StepEvents : PushStatus(e) /\ StreamIdle
    \/ \E e \in StepEvents : PushLog(e) /\ StreamIdle
    \/ \E e \in StepEvents : PushOther(e) /\ StreamIdle
    \/ KillRunSuccess
    \/ ModifyStart
    \/ StartSettled
    \/ StartRejected

SpecSteps == Init /\ [][NextSteps]_vars

-----------------------------------------------------------------------------
(* The event stream of a run *)

StreamEvents ==
    { StatusEvent("implement", "running"), LogEvent("c"), TitleEvent("T9"),
      OtherEvent("router.result"), OtherEvent("plan.ready"), OtherEvent("unknown"),
      DoneEvent(TRUE, Null), DoneEvent(FALSE, Null) }

StreamItems == {BadItem} \cup {Item(e) : e \in StreamEvents}

NextStream ==
    \/ RunEventsEffect
    \/ \E item \in StreamItems : Arrive(item)
    \/ OnMessage
    \/ \E f \in fetches : \E body \in RemoteBodies : FetchSucceeds(f, body)
    \/ \E f \in fetches : FetchFails(f)
    \/ \E rid \in RunIds : startGeneration(rid)
    \/ StartSettled
    \/ StartRejected

SpecStream == Init /\ [][NextStream]_vars

-----------------------------------------------------------------------------
(* The lifetime of the event stream's channel *)

ChannelItems == {BadItem, Item(LogEvent("c")), Item(DoneEvent(TRUE, Null))}

NextChannel ==
    \/ RunEventsEffect
    \/ \E t \in Tokens : TokenChanged(t)
    \/ \E item \in ChannelItems : Arrive(item)
    \/ OnMessage
    \/ \E f \in fetches : \E body \in RemoteBodies : FetchSucceeds(f, body)
    \/ \E f \in fetches : FetchFails(f)
    \/ KillRunSuccess
    \/ \E rid \in RunIds : startGeneration(rid)
    \/ StartSettled
    \/ StartRejected

SpecChannel == Init /\ [][NextChannel]_vars

-----------------------------------------------------------------------------
(* Cancelling a run *)

CancelEvents == {StatusEvent("implement", "running"), LogEvent("c")}

NextCancel ==
    \/ \E e \in CancelEvents : PushStatus(e) /\ StreamIdle
    \/ \E e \in CancelEvents : PushLog(e) /\ StreamIdle
    \/ \E e \in DoneEvents : PushDoneFetch(e) /\ StreamIdle
    \/ \E f \in fetches : \E body \in RemoteBodies : FetchSucceeds(f, body)
    \/ \E f \in fetches : FetchFails(f)
    \/ KillRunSuccess
    \/ \E cause \in KillFailures : KillRunFails(cause)
    \/ \E rid \in RunIds : startGeneration(rid)
    \/ ModifyStart
    \/ StartSettled
    \/ StartRejected

SpecCancel == Init /\ [][NextCancel]_vars

-----------------------------------------------------------------------------
(* The step map that RunView derives the active step from *)

ViewEvents == {StatusEvent(step, state) : step \in StepKeys, state \in StepStates}

NextView ==
    \/ \E e \in ViewEvents : PushStatus(e) /\ StreamIdle
    \/ KillRunSuccess
    \/ \E rid \in RunIds : startGeneration(rid)
    \/ ModifyStart
    \/ StartSettled
    \/ StartRejected

SpecView == Init /\ [][NextView]_vars

-----------------------------------------------------------------------------
(* The optimistic file mutations, with the mirror replaced by the reconciler *)

EditNames == NewNames \cup {"index.html", "d.json"}

NextEdit ==
    \/ \E o \in EditNames : \E n \in NewNames : RenameRejectedByHandler(o, n)
    \/ \E o \in EditNames : \E n \in NewNames : RenameRequested(o, n)
    \/ RenameRejectedByMutate
    \/ RenameApplied
    \/ RenameFails
    \/ RenameSucceeds
    \/ \E n \in NewNames : AddRejected(n)
    \/ \E n \in NewNames : AddApplied(n)
    \/ AddFails
    \/ AddSucceeds
    \/ \E n \in EditNames : DeleteApplied(n)
    \/ DeleteFails
    \/ DeleteSucceeds
    \/ \E n \in EditNames : SelectFile(n)
    \/ \E e \in DoneEvents : PushDoneFetch(e) /\ StreamIdle
    \/ \E f \in fetches : \E body \in RemoteBodies : FetchSucceeds(f, body)

SpecEdit == Init /\ [][NextEdit]_vars

-----------------------------------------------------------------------------
(* File mutations that overlap, with the mirror replaced by the reconciler *)

OverlapNames == {"a.ts", "b.ts", "c.ts"}
OverlapNewNames == {"b.ts", "c.ts"}

NextOverlap ==
    \/ \E o \in OverlapNames : \E n \in OverlapNewNames : RenameRequested(o, n)
    \/ \E o \in OverlapNames : \E n \in OverlapNewNames : RenameOverlapping(o, n)
    \/ RenameRejectedByMutate
    \/ RenameApplied
    \/ RenameFails
    \/ RenameSucceeds
    \/ \E n \in OverlapNewNames : AddApplied(n)
    \/ \E n \in OverlapNewNames : AddOverlapping(n)
    \/ AddFails
    \/ AddSucceeds
    \/ \E n \in OverlapNames : DeleteApplied(n)
    \/ \E n \in OverlapNames : DeleteOverlapping(n)
    \/ DeleteFails
    \/ DeleteSucceeds
    \/ ParkedFails
    \/ ParkedSucceeds
    \/ \E e \in DoneEvents : nFetches < MaxMirrorFetches /\ PushDoneFetch(e) /\ StreamIdle
    \/ \E f \in fetches : \E body \in RemoteBodies : FetchSucceeds(f, body)

SpecOverlap == Init /\ [][NextOverlap]_vars

-----------------------------------------------------------------------------
(* The debounced file save on the first file of a loaded project *)

\* the specifications that keep the remote writes apart issue one only when fewer
\* than MaxWrites are in flight
OneWrite == Cardinality(writes) < MaxWrites

NextBuf ==
    \/ \E c \in SaveContents : save(c)
    \/ \E c \in SaveContents : EditorChange(c)
    \/ OneWrite /\ TimerFires
    \/ OneWrite /\ flush
    \/ \E w \in writes : WriteSucceeds(w)
    \/ \E w \in writes : WriteFails(w)
    \/ KeyEffect
    \/ \E id \in ListedProjects : LoadRequested(id)
    \/ \E body \in RemoteBodies : LoadSucceeds(body)
    \/ LoadFails

SpecBuf == Init /\ [][NextBuf]_vars

-----------------------------------------------------------------------------
(* The debounced file save while the selection moves between the files *)

NextKey ==
    \/ \E c \in SaveContents : save(c)
    \/ OneWrite /\ TimerFires
    \/ OneWrite /\ flush
    \/ \E w \in writes : WriteSucceeds(w)
    \/ \E w \in writes : WriteFails(w)
    \/ KeyEffect
    \/ \E n \in EditNames : SelectFile(n)
    \/ \E id \in ListedProjects : LoadRequested(id)
    \/ \E body \in RemoteBodies : LoadSucceeds(body)
    \/ LoadFails

SpecKey == Init /\ [][NextKey]_vars

-----------------------------------------------------------------------------
(* The project list: loading a project and deleting one *)

NextList ==
    \/ \E id \in ListedProjects : LoadRequested(id)
    \/ \E body \in RemoteBodies : LoadSucceeds(body)
    \/ LoadFails
    \/ \E id \in DeletableProjects : DeleteProjectSucceeds(id)
    \/ \E id \in DeletableProjects : DeleteProjectFails(id)
    \/ \E n \in EditNames : SelectFile(n)
    \/ \E n \in NewNames : AddApplied(n)
    \/ AddFails
    \/ AddSucceeds

SpecList == Init /\ [][NextList]_vars

-----------------------------------------------------------------------------
(* The debounced file save with remote writes that overlap *)

NextWrites ==
    \/ \E c \in SaveContents : nSaves < MaxOverlap /\ save(c)
    \/ TimerFires
    \/ flush
    \/ \E w \in writes : WriteSucceeds(w)
    \/ \E w \in writes : WriteFails(w)
    \/ KeyEffect
    \/ \E id \in ListedProjects : LoadRequested(id)
    \/ \E body \in RemoteBodies : LoadSucceeds(body)
    \/ LoadFails

SpecWrites == Init /\ [][NextWrites]_vars

-----------------------------------------------------------------------------
(* The debounced file save while its owner unmounts and mounts again *)

NextOwner ==
    \/ \E c \in SaveContents : save(c)
    \/ OneWrite /\ TimerFires
    \/ OneWrite /\ flush
    \/ \E w \in writes : WriteSucceeds(w)
    \/ \E w \in writes : WriteFails(w)
    \/ KeyEffect
    \/ Unmount
    \/ Mount
    \/ \E id \in ListedProjects : LoadRequested(id)
    \/ \E body \in RemoteBodies : LoadSucceeds(body)
    \/ LoadFails

SpecOwner == Init /\ [][NextOwner]_vars

-----------------------------------------------------------------------------
(* Every writer of the mirror's files and selection: the file mutations, content  *)
(* updates and their rollback, reconciler replacement, project load, project reset *)

\* the names and the snapshot of the runs of SpecMirror
MirrorNames == {"a.ts", "b.ts"}
MirrorNewNames == {"b.ts"}
MirrorBodies == {b \in RemoteBodies : b.title = "T1"}
MirrorContents == { <<"S", "y">> }

\* the number of asynchronous operations on the mirror that have not finished: the
\* snapshot fetches, the project load, the file mutation, the armed save timers and
\* the remote writes
Pending ==
    Cardinality(fetches) + (IF loading # Null THEN 1 ELSE 0)
        + (IF NoMutationPending THEN 0 ELSE 1) + liveTimers + Cardinality(writes)

\* a further operation may start
MayStart == Pending < MaxPending

NextMirror ==
    \/ \E o \in MirrorNames : \E n \in MirrorNewNames : RenameRejectedByHandler(o, n)
    \/ \E o \in MirrorNames : \E n \in MirrorNewNames : MayStart /\ RenameRequested(o, n)
    \/ RenameRejectedByMutate
    \/ RenameApplied
    \/ RenameFails
    \/ RenameSucceeds
    \/ \E n \in MirrorNewNames : AddRejected(n)
    \/ \E n \in MirrorNewNames : MayStart /\ AddApplied(n)
    \/ AddFails
    \/ AddSucceeds
    \/ \E n \in MirrorNames : MayStart /\ DeleteApplied(n)
    \/ DeleteFails
    \/ DeleteSucceeds
    \/ \E n \in MirrorNames : SelectFile(n)
    \/ \E e \in DoneEvents : nFetches < MaxMirrorFetches /\ MayStart /\ PushDoneFetch(e) /\ StreamIdle
    \/ \E f \in fetches : \E body \in MirrorBodies : FetchSucceeds(f, body)
    \/ \E c \in MirrorContents :
          nSaves < MaxMirrorSaves /\ (timerRefLive \/ MayStart) /\ EditorChange(c)
    \/ TimerFires
    \/ \E w \in writes : WriteSucceeds(w)
    \/ \E w \in writes : WriteFails(w)
    \/ KeyEffect
    \/ \E id \in ListedProjects : MayStart /\ LoadRequested(id)
    \/ \E body \in MirrorBodies : LoadSucceeds(body)
    \/ LoadFails
    \/ newProject("Undefined Project")

SpecMirror == Init /\ [][NextMirror]_vars

-----------------------------------------------------------------------------
(* Claims about the Completion Reconciler *)

\* C1: a done{ok:true} event processed while a snapshot fetch issued in the same
\* session (no reset since) has not settled issues no further fetch, so duplicates
\* give exactly one fetch and one replacement.
C1_DuplicateDoneIgnored ==
    (lastDone.seen /\ lastDone.ok /\ lastDone.dup) => lastDone.issued = 0

\* C2: at most one snapshot fetch is in flight per session, in every reachable state.
C2_SingleFlightPerSession ==
    \A f \in fetches : \A g \in fetches : f.session = g.session => f = g

\* C10 as stated: every done{ok:false} event issues no fetch and appends exactly one
\* failure log entry.
C10_FailedDoneAlwaysLogs ==
    (lastDone.seen /\ ~lastDone.ok) =>
        /\ lastDone.issued = 0
        /\ Len(lastDone.appended) = 1

\* C10 amended: a done{ok:false} event never issues a fetch; processed with the guard
\* clear it appends exactly one system-originated failure entry, processed with the
\* guard set it is ignored and appends nothing.
C10_FailedDoneLogsUnlessGuarded ==
    (lastDone.seen /\ ~lastDone.ok) =>
        /\ lastDone.issued = 0
        /\ IF lastDone.guard
           THEN lastDone.appended = <<>> /\ ~lastDone.changed
           ELSE /\ Len(lastDone.appended) = 1
                /\ lastDone.appended[1].content = FailureLine
                /\ lastDone.appended[1].fromUser = FALSE

\* a done{ok:false} event was processed with the guard clear and the failure entry is
\* the last message of the mirror
C10_Witness ==
    /\ lastDone.seen
    /\ ~lastDone.ok
    /\ ~lastDone.guard
    /\ Len(lastDone.appended) = 1
    /\ Len(project.messages) > 0
    /\ project.messages[Len(project.messages)].content = FailureLine

-----------------------------------------------------------------------------
(* Claims about the step map *)

\* C9: after any sequence of status events of one session, every step named by some
\* event holds the state of the last event that named it.
C9_LastStatusWins ==
    \A k \in DOMAIN named : k \in DOMAIN steps /\ steps[k] = named[k]

\* every step of StatusSteps was named by status events of a session that a reset
\* started, the last of them naming test
C9_Witness ==
    /\ DOMAIN named = StatusSteps
    /\ steps["implement"] = "done"
    /\ steps["router"] = "failed"
    /\ last = StatusEvent("test", "queued")
    /\ session > 0

-----------------------------------------------------------------------------
(* Claims about the optimistic file mutations *)

NamesOf(files) == [i \in 1..Len(files) |-> files[i].name]

\* C3: when the remote rename fails after the optimistic rename was applied, the
\* mirror's files (names, order, contents) and selection equal what they were just
\* before the rename was applied.
C3_RenameFailureRestores ==
    (lastEdit.op = "rename" /\ lastEdit.outcome = "failed") =>
        /\ lastEdit.postFiles = lastEdit.preFiles
        /\ lastEdit.postActive = lastEdit.preActive

\* a rename of the selected file, which was not the first file, has failed
C3_Witness ==
    /\ lastEdit.op = "rename"
    /\ lastEdit.outcome = "failed"
    /\ Len(lastEdit.preFiles) >= 2
    /\ lastEdit.preActive = lastEdit.preFiles[2].name
    /\ ~nameExists(lastEdit.preFiles, lastEdit.name)
    /\ project.activeFile = lastEdit.preActive

C6_CollisionRejectedLocally ==
    (lastEdit.op \in {"add", "rename"} /\ lastEdit.collision) =>
        /\ lastEdit.outcome = "rejected"
        /\ lastEdit.requests = 0
        /\ nRequests = 0
        /\ lastEdit.postFiles = lastEdit.preFiles
        /\ lastEdit.postActive = lastEdit.preActive

\* renaming to b.ts was rejected while a.ts and b.ts both exist
C6_Witness ==
    /\ lastEdit.op = "rename"
    /\ lastEdit.outcome = "rejected"
    /\ lastEdit.name = "b.ts"
    /\ nameExists(project.files, "a.ts")
    /\ nameExists(project.files, "b.ts")
    /\ nRequests = 0

-----------------------------------------------------------------------------
(* Claims about the debounced file save *)

Last(seq) == seq[Len(seq)]

\* C7 (as stated): the remote write issued when the delay timer of a burst of N >= 1
\* save() calls expires is the only write of the burst and carries the content of
\* the N-th call.
C7_WriteCarriesLastContent ==
    /\ liveTimers <= 1
    /\ (lastWrite.by = "timer") =>
          /\ Len(lastWrite.burst) >= 1
          /\ lastWrite.issued = 1
          /\ lastWrite.content = Last(lastWrite.burst)

\* C7 (amended): a burst of N >= 1 save() calls keeps exactly one timer armed, the
\* expiry of that timer issues exactly one remote write, and the write carries the
\* content of the N-th call, with the first tw-built style block removed when the
\* file name ends with index.html.
C7_WriteCarriesSavedFormOfLast ==
    /\ liveTimers <= 1
    /\ (burst # <<>>) <=> (liveTimers = 1)
    /\ (lastWrite.by = "timer") =>
          /\ Len(lastWrite.burst) >= 1
          /\ lastWrite.issued = 1
          /\ lastWrite.content =
                IF lastWrite.fileName \in IndexHtmlNames
                    THEN stripTwBuilt(Last(lastWrite.burst))
                    ELSE Last(lastWrite.burst)

\* a timer write for a burst of two different contents of index.html, the last of
\* them holding a tw-built style block
C7_Witness ==
    /\ lastWrite.by = "timer"
    /\ lastWrite.fileName = "index.html"
    /\ Len(lastWrite.burst) >= 2
    /\ lastWrite.burst[1] # Last(lastWrite.burst)
    /\ lastWrite.content # Last(lastWrite.burst)

\* C8 (as stated): when the remote write issued for a burst of N >= 1 updates fails,
\* and no update followed the burst, the file's content in the mirror is the content
\* it had before the first of the N updates.
C8_FailedWriteRestoresPrior ==
    (lastFail.seen /\ lastFail.updates >= 1 /\ burst = <<>> /\ writes = {}) =>
        lastFail.after = lastFail.base

-----------------------------------------------------------------------------
(* Claims about the outcome of the reconciler's snapshot fetch *)

\* C11 (as stated): when the snapshot fetch of a done{ok:true} event fails, neither the
\* done event nor the failure has changed the mirror's files, title, identifier,
\* messages or selection, the ready flag is what it was before the done event (when
\* no reset and no other fetch came in between), and the guard is clear.
C11_FetchFailureLeavesMirror ==
    (lastSettle.seen /\ ~lastSettle.ok) =>
        /\ lastSettle.keptAtDone
        /\ lastSettle.kept
        /\ lastSettle.quiet => ready = lastSettle.preReady
        /\ ~doneInflight

\* C12: when the snapshot fetch of a done{ok:true} event succeeds and no reset and no
\* other fetch came in between, the mirror's files, title, identifier and messages
\* are those of the normalized snapshot, ready is true, pending is false, the guard
\* is clear and the run is not running.
C12_FetchSuccessReplacesMirror ==
    (lastSettle.seen /\ lastSettle.ok /\ lastSettle.quiet) =>
        /\ project.files = lastSettle.snapshot.files
        /\ project.title = lastSettle.snapshot.title
        /\ project.id = lastSettle.snapshot.id
        /\ project.messages = lastSettle.snapshot.messages
        /\ ready
        /\ ~project.isPending
        /\ ~doneInflight
        /\ ~running

\* a snapshot with an object content and no messages replaced a mirror that held the
\* other project
C12_Witness ==
    /\ lastSettle.seen /\ lastSettle.ok /\ lastSettle.quiet
    /\ lastSettle.snapshot.title = "T2"
    /\ contentOf(project.files, "d.json") = <<"J", "y">>
    /\ project.messages = <<>>
    /\ session > 0

-----------------------------------------------------------------------------
(* Claims about the mirror's selection *)

\* C13: in every reachable state the mirror's selected file is absent or the name of
\* a file of the mirror.
C13_SelectionNamesAFile ==
    project.activeFile = Null \/ nameExists(project.files, project.activeFile)

\* the selected file was deleted after a content update and the selection fell back
\* to the first remaining file
C13_Witness ==
    /\ lastEdit.op = "delete"
    /\ lastEdit.outcome = "applied"
    /\ lastEdit.name = lastEdit.preActive
    /\ nSaves > 0
    /\ Len(project.files) > 0
    /\ project.activeFile = project.files[1].name

\* C14: when the reconciler has replaced the mirror while a rename, add, delete or
\* content write was in flight, the failure of that operation leaves the files and
\* the selection of the mirror as they were.
C14_FailureKeepsReplacedMirror ==
    /\ (lastEdit.outcome = "failed" /\ lastEdit.replaced) => lastEdit.kept
    /\ (lastFail.seen /\ lastFail.replaced) => lastFail.kept

-----------------------------------------------------------------------------
(* Claims about the active step of RunView *)

\* the positions of the order of the current run kind whose step has status st
PositionsWith(st) ==
    {i \in 1..Len(stepOrder(runType)) : stepStatus(steps, stepOrder(runType)[i]) = st}

PositionsNotDone ==
    {i \in 1..Len(stepOrder(runType)) : stepStatus(steps, stepOrder(runType)[i]) # "done"}

ActiveNow == active(steps, stepOrder(runType))

\* C15 as stated: the active step is exactly one step of the order, and it is running
\* whenever any step of the step map is running.
C15_ActiveRunningIfAnyRunning ==
    /\ Cardinality({i \in 1..Len(stepOrder(runType)) :
                        stepOrder(runType)[i] = ActiveNow}) = 1
    /\ (\E k \in DOMAIN steps : steps[k] = "running") =>
            stepStatus(steps, ActiveNow) = "running"

\* C15 amended: the active step is exactly one step of the order, and it is running
\* whenever any step of that order is running.
C15_ActiveRunningIfOrderRunning ==
    /\ Cardinality({i \in 1..Len(stepOrder(runType)) :
                        stepOrder(runType)[i] = ActiveNow}) = 1
    /\ PositionsWith("running") # {} => stepStatus(steps, ActiveNow) = "running"

\* a modification whose planner is done and whose test step runs before implement
\* has reported anything
C15_Witness ==
    /\ runType = "modify"
    /\ stepStatus(steps, "planner") = "done"
    /\ stepStatus(steps, "implement") = Null
    /\ stepStatus(steps, "test") = "running"
    /\ ActiveNow = "test"

\* C16: the active step is the first running step of the order; without a running
\* step the first step that is not done (a step without status included); without
\* either the last step of the order.  The order is router, planner, implement,
\* test, fix, and planner, implement, test, fix for a modification.
C16_ActiveStepRule ==
    /\ stepOrder(runType) = IF runType = "modify"
                            THEN <<"planner", "implement", "test", "fix">>
                            ELSE <<"router", "planner", "implement", "test", "fix">>
    /\ \A i \in PositionsWith("running") :
          (\A j \in PositionsWith("running") : i <= j) => ActiveNow = stepOrder(runType)[i]
    /\ PositionsWith("running") = {} =>
          \A i \in PositionsNotDone :
              (\A j \in PositionsNotDone : i <= j) => ActiveNow = stepOrder(runType)[i]
    /\ (PositionsWith("running") = {} /\ PositionsNotDone = {}) =>
          ActiveNow = stepOrder(runType)[Len(stepOrder(runType))]

\* a generation whose router is done, whose planner has no status yet and whose
\* later steps are queued: the planner is active
C16_Witness ==
    /\ runType = "generate"
    /\ stepStatus(steps, "router") = "done"
    /\ stepStatus(steps, "planner") = Null
    /\ stepStatus(steps, "implement") = "queued"
    /\ PositionsWith("running") = {}
    /\ ActiveNow = "planner"

\* the event status{implement, done} is processed in a state where implement is running
ImplementDoneAfterRunning ==
    /\ stepStatus(steps, "implement") = "running"
    /\ last' = StatusEvent("implement", "done")

\* C17 as stated: after status{implement, running} and later status{implement, done}
\* the step map holds implement = done, and the active step is test if test is queued.
C17_TestActiveAfterImplement ==
    [][ImplementDoneAfterRunning =>
          /\ stepStatus(steps', "implement") = "done"
          /\ stepStatus(steps', "test") = "queued" =>
                active(steps', stepOrder(runType')) = "test"]_vars

\* C17 amended: the step map holds implement = done, and the active step is test if
\* test is queued, every step before implement in the order is done and fix is not
\* running.
C17_TestActiveAfterImplementInOrder ==
    [][ImplementDoneAfterRunning =>
          /\ stepStatus(steps', "implement") = "done"
          /\ ( /\ stepStatus(steps', "test") = "queued"
               /\ stepStatus(steps', "fix") # "running"
               /\ stepStatus(steps', "planner") = "done"
               /\ runType' # "modify" => stepStatus(steps', "router") = "done" ) =>
                active(steps', stepOrder(runType')) = "test"]_vars

\* a generation after status{implement, done}: router, planner and implement are
\* done, test is queued and test is the active step
C17_Witness ==
    /\ runType = "generate"
    /\ last = StatusEvent("implement", "done")
    /\ stepStatus(steps, "router") = "done"
    /\ stepStatus(steps, "planner") = "done"
    /\ stepStatus(steps, "implement") = "done"
    /\ stepStatus(steps, "test") = "queued"
    /\ ActiveNow = "test"

-----------------------------------------------------------------------------
(* Claims about cancelling a run *)

\* C18: when a kill request has settled, with whatever outcome, the run state is the
\* initial run state and the single-flight guard is clear.
C18_CancelAlwaysResets ==
    lastKill.seen =>
        /\ runId = Null
        /\ ~running
        /\ steps = NoSteps
        /\ logs = <<>>
        /\ last = NoEvent
        /\ ~doneInflight

-----------------------------------------------------------------------------
(* Claims about the stream consumer and the event handling *)

\* the step just taken passed the first item of the inbox to onmessage, the item
\* being an event whose type is in kinds
Handled(kinds) ==
    /\ lastItem'.seen
    /\ lastItem'.json
    /\ lastItem'.t \in kinds

NonDoneTypes ==
    {"status", "log", "title.generated", "router.result", "plan.ready", "unknown"}

C20_BadItemDiscarded ==
    [][lastItem'.seen =>
          /\ inbox # <<>>
          /\ inbox' = Tail(inbox)
          /\ es' = es
          /\ es # Null
          /\ lastItem'.json = Head(inbox).json
          /\ Head(inbox).json => pushEvent(Head(inbox).e)
          /\ ~Head(inbox).json =>
                UNCHANGED <<project, ready, runId, running, runType, steps, logs, last,
                            doneInflight, fetches>>]_vars

\* an unparsable item was just dropped while a log event received after it waits
\* in the open channel
C20_Witness ==
    /\ lastItem.seen
    /\ ~lastItem.json
    /\ es # Null
    /\ inbox = <<Item(LogEvent("c"))>>
    /\ running

-----------------------------------------------------------------------------
(* Claims about the lifetime of the channel *)

\* C21: the only EventSource that is not closed is the one the last run of the
\* effect constructed, and there is none after a teardown; every item waiting for
\* onmessage, and the item just passed to pushEvent, came from that EventSource.
C21_ClosedChannelSilent ==
    /\ Cardinality(open) <= 1
    /\ open = IF es = Null THEN {} ELSE {esGen}
    /\ \A i \in 1..Len(inboxGen) : inboxGen[i] \in open
    /\ lastItem.seen => lastItem.gen \in open

\* after a change of token the effect closed the first EventSource and constructed a
\* second one, and an event received by the second one was passed on
C21_Witness ==
    /\ esGen = 2
    /\ token = "t2"
    /\ esToken = "t2"
    /\ lastItem.seen
    /\ lastItem.json
    /\ lastItem.gen = 2

-----------------------------------------------------------------------------
(* Claims about the ready flag, the pending flag and the running flag *)

\* the mirror holds the title and the files of the normalized snapshot of body b
HoldsSnapshot(b) ==
    LET n == normalizeProject([id |-> project.id, title |-> b.title,
                               files |-> b.files, messages |-> b.messages])
    IN /\ project.title = n.title
       /\ project.files = n.files

\* C22: the ready flag is true only if the mirror holds the files and the title of a
\* snapshot installed since the last reset; a done event that signals failure and a
\* failed fetch do not set it.
C22_ReadyOnlyAfterSnapshot ==
    ready => \E b \in RemoteBodies : HoldsSnapshot(b)

\* C23: a step that handles a done event and marks the run not running leaves no
\* snapshot fetch in flight, the guard clear and the pending flag clear.
C23_NotRunningOnlyAfterFetch ==
    [][(lastDone'.seen /\ lastDone'.ok /\ running /\ ~running') =>
          /\ fetches' = {}
          /\ ~doneInflight'
          /\ ~project'.isPending]_vars

\* C24: while a snapshot fetch, a project load, a content write or a file add, rename
\* or delete request is in flight, the pending flag of the mirror is true.
C24_PendingWhileInFlight ==
    (fetches # {} \/ loading # Null \/ writes # {} \/ nRequests > 0) => project.isPending

-----------------------------------------------------------------------------
(* Claims about the single-flight guard under fair settling of the fetches *)

\* C25 as stated: a set guard is eventually clear, and a done event with ok: true
\* processed while the guard is clear starts a snapshot fetch.
C25_GuardClearsAndDoneFetches ==
    /\ [](doneInflight => <>(~doneInflight))
    /\ []((lastDone.seen /\ lastDone.ok /\ ~lastDone.guard) => lastDone.issued = 1)

\* C25 amended: a set guard is eventually clear, and a done event with ok: true
\* processed while the guard is clear starts a snapshot fetch if the run or the
\* event names a project; without one it leaves the guard clear.
C25_GuardClearsAndDoneFetchesWithId ==
    /\ [](doneInflight => <>(~doneInflight))
    /\ []((lastDone.seen /\ lastDone.ok /\ ~lastDone.guard) =>
             \/ lastDone.issued = 1
             \/ (lastDone.issued = 0 /\ ~doneInflight /\ runId = Null))

\* a second done event, processed after the first fetch settled and cleared the
\* guard, has started a second fetch
C25_Witness ==
    /\ lastDone.seen
    /\ lastDone.ok
    /\ ~lastDone.guard
    /\ lastDone.issued = 1
    /\ nFetches = 2
    /\ Cardinality(fetches) = 1
    /\ doneInflight

-----------------------------------------------------------------------------
(* Claims about the selection under optimistic rename and delete *)

\* C26: when the optimistic rename of oldName to newName has been applied, the file
\* list has the same length, the file that was called oldName is called newName at
\* the same position with the same content, every other file is as before, and the
\* selection is newName if it was oldName and is unchanged otherwise.
C26_RenameKeepsPlaceAndFollows ==
    (lastEdit.op = "rename" /\ lastEdit.outcome = "applied") =>
        /\ Len(lastEdit.postFiles) = Len(lastEdit.preFiles)
        /\ \A i \in 1..Len(lastEdit.preFiles) :
              IF lastEdit.preFiles[i].name = mut.name
              THEN /\ lastEdit.postFiles[i].name = mut.newName
                   /\ lastEdit.postFiles[i].content = lastEdit.preFiles[i].content
              ELSE lastEdit.postFiles[i] = lastEdit.preFiles[i]
        /\ lastEdit.postActive =
              IF lastEdit.preActive = mut.name THEN mut.newName ELSE lastEdit.preActive

\* the second of two files, which was selected and has content, was renamed
C26_Witness ==
    /\ lastEdit.op = "rename"
    /\ lastEdit.outcome = "applied"
    /\ Len(lastEdit.preFiles) = 2
    /\ lastEdit.preFiles[2].name = mut.name
    /\ lastEdit.preFiles[2].content # <<>>
    /\ lastEdit.preActive = mut.name
    /\ project.activeFile = mut.newName
    /\ project.files[2].name = mut.newName

\* C27: when the optimistic delete of a file has been applied, the selection is the
\* first remaining file, or none if no file remains, if the deleted file was
\* selected, and is unchanged otherwise.
C27_DeleteSelectionFallsBack ==
    (lastEdit.op = "delete" /\ lastEdit.outcome = "applied") =>
        /\ lastEdit.postFiles = filterOut(lastEdit.preFiles, lastEdit.name)
        /\ lastEdit.postActive =
              IF lastEdit.preActive # lastEdit.name THEN lastEdit.preActive
              ELSE IF lastEdit.postFiles = <<>> THEN Null
              ELSE lastEdit.postFiles[1].name

\* the only file, which was selected, was deleted and nothing is selected
C27_Witness ==
    /\ lastEdit.op = "delete"
    /\ lastEdit.outcome = "applied"
    /\ Len(lastEdit.preFiles) = 1
    /\ lastEdit.preActive = lastEdit.name
    /\ project.files = <<>>
    /\ project.activeFile = Null


\* C28: when a remote write fails after an earlier remote write for the same key
\* succeeded, and a rollback snapshot is held, the mirror's content of the file is
\* restored to the content that the earlier successful write confirmed, not to the
\* content from before that write
C28_RollbackToConfirmed ==
    (lastFail.seen /\ lastFail.updates >= 1
        /\ lastFail.confirmed.seen /\ lastFail.confirmed.updates >= 1
        /\ lastFail.confirmed.content # EmptyContent
        /\ prevContentRef # EmptyContent
        /\ burst = <<>> /\ writes = {})
        => lastFail.after = lastFail.confirmed.content

\* a write failed after an earlier write for the same key succeeded, and the mirror
\* went back to the content from before the earlier write
C28_RestoredBeforeConfirmed ==
    /\ lastFail.seen /\ lastFail.updates >= 1
    /\ lastFail.confirmed.seen /\ lastFail.confirmed.updates >= 1
    /\ lastFail.confirmed.content # EmptyContent
    /\ prevContentRef # EmptyContent
    /\ burst = <<>> /\ writes = {}
    /\ lastFail.after # lastFail.confirmed.content
    /\ lastFail.after = prevContentRef


C30_KeyChangeDropsPending ==
    [][/\ (bufKey' # bufKey /\ timerRefLive) =>
            /\ latestContentRef' = EmptyContent
            /\ prevContentRef' = EmptyContent
            /\ ~timerRefLive'
            /\ liveTimers' = 0
            /\ burst' = <<>>
            /\ writes' = writes
            /\ lastWrite'.by = Null
            /\ project' = project
       /\ Cardinality(writes') > Cardinality(writes) =>
            /\ bufKey' = bufKey
            /\ lastWrite'.fileName = bufKey[2]
            /\ lastWrite'.burst = burst
            /\ (lastKey.seen => lastWrite'.by = "flush" /\ lastWrite'.burst = <<>>)]_vars

\* the key effect has just dropped a waiting update of the previous key's file, no
\* write was issued, and the mirror still holds the update
C30_Witness ==
    /\ lastKey.seen /\ lastKey.timer
    /\ lastKey.dropped # <<>>
    /\ lastKey.dropped[Len(lastKey.dropped)] # EmptyContent
    /\ nameExists(project.files, lastKey.fileName)
    /\ contentOf(project.files, lastKey.fileName) = lastKey.dropped[Len(lastKey.dropped)]
    /\ hookFileName # lastKey.fileName
    /\ writes = {} /\ liveTimers = 0 /\ ~timerRefLive
    /\ latestContentRef = EmptyContent /\ prevContentRef = EmptyContent


\* C31: once the owner of the save hook is unmounted no timer of the hook is live,
\* and no remote write is issued while it is unmounted
C31_NoTimerAfterTeardown ==
    [][/\ ~bufMounted' => liveTimers' = 0 /\ ~timerRefLive'
       /\ ~bufMounted => Cardinality(writes') <= Cardinality(writes)]_vars

\* the owner was unmounted while an update waited on its timer: the update is
\* still unwritten, no timer is live and no write is in flight
C31_Witness ==
    /\ ~bufMounted
    /\ burst # <<>>
    /\ burst[Len(burst)] # EmptyContent
    /\ liveTimers = 0
    /\ writes = {}


\* C32: a log event appends exactly one entry to the run log, flagged as not from
\* the user and carrying the event's chunk, and no event of any kind removes,
\* reorders or modifies an entry the log already holds
C32_LogAppendOnly ==
    [][\A e \in StreamEvents :
          pushEvent(e) =>
              /\ Len(logs') >= Len(logs)
              /\ SubSeq(logs', 1, Len(logs)) = logs
              /\ e.t = "log" =>
                    /\ Len(logs') = Len(logs) + 1
                    /\ logs'[Len(logs')].content = e.chunk
                    /\ ~logs'[Len(logs')].fromUser
              /\ e.t # "log" => logs' = logs]_vars

\* a log event has just been appended behind an earlier entry of the log
C32_Witness ==
    /\ lastItem.seen /\ lastItem.json /\ lastItem.t = "log"
    /\ Len(logs) = 2
    /\ logs[2].content = "c"
    /\ ~logs[2].fromUser
    /\ last.t = "log"


\* C33: right after reset() every field of the run session has its initial value:
\* no run id, no run kind, no steps, no log, no last event, not running, and the
\* single-flight guard is clear
C33_ResetClearsSession ==
    (lastKill.seen /\ lastKill.ok) =>
        /\ runId = Null
        /\ runType = Null
        /\ steps = NoSteps
        /\ logs = <<>>
        /\ last = NoEvent
        /\ ~running
        /\ ~doneInflight

\* right after reset() the session still shows the kind of the run before it
C33_RunTypeSurvivesReset ==
    /\ lastKill.seen /\ lastKill.ok
    /\ runType # Null
    /\ runId = Null /\ steps = NoSteps /\ logs = <<>> /\ last = NoEvent
    /\ ~running /\ ~doneInflight


\* C35: processing done with ok false leaves the running flag as it was, and a run
\* that is running stops running only by a done with ok true or by a change of
\* session (reset() or a new run)
C35_FailedDoneKeepsRunning ==
    [][/\ (lastDone'.seen /\ ~lastDone'.ok) => running' = running
       /\ (running /\ ~running') =>
              \/ session' # session
              \/ lastDone'.seen /\ lastDone'.ok]_vars

\* a done with ok false has just been processed and the run is still running
C35_Witness ==
    /\ lastDone.seen /\ ~lastDone.ok /\ ~lastDone.guard
    /\ running
    /\ "done" \in DOMAIN steps
    /\ ~doneInflight


\* the names of the files are pairwise distinct
UniqueNames(files) ==
    \A i, j \in 1..Len(files) : files[i].name = files[j].name => i = j

\* C34: under every interleaving of add, rename and delete, with their rollbacks
\* and with the snapshots of the reconciler, the names of the mirror's files are
\* pairwise distinct
C34_NamesUnique == UniqueNames(project.files)

\* the rollback of an overlapped file mutation has put back a list of two or more
\* files, without the file that a later add, still in flight, had appended
C34_Witness ==
    /\ Len(project.files) >= 2
    /\ UniqueNames(project.files)
    /\ parked = NoMut
    /\ mut.op = "add" /\ mut.phase = "request" /\ ~mut.replaced
    /\ ~nameExists(project.files, mut.name)
    /\ nRequests = 1


\* C36: a snapshot that the reconciler fetched for a session that reset() or a new
\* run has ended does not replace the mirror's files, title, identifier, selection
\* or messages when its fetch succeeds
C36_StaleSnapshotIgnored ==
    [][\A f \in fetches :
          (f.session # session /\ f \notin fetches' /\ lastSettle'.seen /\ lastSettle'.ok)
              => MirrorFields(project') = MirrorFields(project)]_vars


\* C37: while a run is launched (run id set and running), a step that is neither a
\* cancel nor reset() by newProject nor the launch of another run keeps every step
\* that a status event of the run has named and every entry of the log
C37_LaunchedRunKeepsProgress ==
    [][(/\ running /\ runId # Null
        /\ ~(lastKill'.seen /\ lastKill'.ok)
        /\ ~(starting = NoStart /\ starting' # NoStart)
        /\ ~(session' # session /\ ~running'))
          => /\ \A k \in DOMAIN named : k \in DOMAIN steps'
             /\ Len(logs') >= Len(logs)
             /\ SubSeq(logs', 1, Len(logs)) = logs]_vars

\* the continuation of a start request has just run: the run is the one that was
\* launched, and the steps and the log lines that events reported meanwhile are gone
C37_ProgressLostAtStartSettled ==
    /\ running /\ runId # Null
    /\ starting = NoStart
    /\ steps = NoSteps
    /\ Len(logs) = 1 /\ logs[1].fromUser
    /\ session = 2


\* C38: when remote writes for the key overlapped, all writes have settled, the
\* last one issued succeeded and no update waits, the file's content in the mirror
\* is the content that the last write issued carried
C38_LastWriteWins ==
    (/\ writes = {} /\ liveTimers = 0 /\ burst = <<>>
     /\ KeySettled
     /\ confirmed.lastOk /\ confirmed.lastOver
     /\ confirmed.lastContent # EmptyContent)
        => contentOf(project.files, hookFileName) = confirmed.lastContent

\* all writes have settled, the last one issued overlapped another one and
\* succeeded, and the mirror holds the rollback snapshot instead of its content
C38_RolledBackOverLastWrite ==
    /\ writes = {} /\ liveTimers = 0 /\ burst = <<>>
    /\ KeySettled
    /\ confirmed.lastOk /\ confirmed.lastOver
    /\ confirmed.lastContent # EmptyContent
    /\ prevContentRef # EmptyContent
    /\ contentOf(project.files, hookFileName) = prevContentRef
    /\ contentOf(project.files, hookFileName) # confirmed.lastContent
    /\ lastFail.seen


C39_IdleFlushWroteEmpty ==
    /\ lastWrite.by = "flush" /\ lastWrite.issued = 1
    /\ lastWrite.burst = <<>>
    /\ lastWrite.content = EmptyContent
    /\ latestContentRef = EmptyContent /\ prevContentRef = EmptyContent
    /\ nSaves = 0
    /\ contentOf(project.files, lastWrite.fileName) # EmptyContent


\* C40: a successful delete of a project whose identifier is not the mirror's
\* changes neither the mirror's files, title, identifier, selection or messages
\* nor its ready flag
C40_DeleteOtherKeepsMirror ==
    [][\A id \in DeletableProjects :
          (id # project.id /\ DeleteProjectSucceeds(id))
              => MirrorFields(project') = MirrorFields(project) /\ ready' = ready]_vars

====
